---- MODULE Spec2Model ----
(***************************************************************************)
(* Ryanair flight scanner: the search pipeline of FlightAnalyzer           *)
(* (lib/flight_analyzer.py) over RyanairAPIClient (lib/ryanair_client.py)  *)
(* and the fare source Ryanair (lib/ryanair_internal.py).                  *)
(*                                                                         *)
(* Instants are seconds since day 0 (a date is a day number), prices are   *)
(* cents.  A Python Optional is a sequence of length 0 (None) or 1.        *)
(***************************************************************************)
EXTENDS Integers, Sequences, FiniteSets, TLC

VARIABLES
    ryanair_client,      \* api/index.py: the global _ryanair_client, <<>> for None
    calls,               \* the calls of get_ryanair_client, one thread each
    instances,           \* how many RyanairAPIClient objects were constructed
    handed,              \* the instances get_ryanair_client has returned
    csv,                 \* what pd.read_csv(Config.AIRPORTS_CSV_URL) meets
    airports,            \* get_all_airports: airports
    reply,               \* <<>> until get_all_airports answers, then <<its HTTP reply>>
    task,                \* which call of search_flights is running: 1 or 2
    waiting,             \* the locals of the other call, suspended at an await
    request,             \* the FlightSearchRequest handed to search_flights
    upstream,            \* the fare source's data and its network trouble
    directory,           \* what client.get_destinations_from_origin answers
    pc,                  \* position of search_flights
    direct_flights,      \* search_flights: direct_flights
    connecting_flights,  \* _search_connecting_flights: connecting_flights
    hub_airports,        \* _search_connecting_flights: hubs still to visit
    destinations,        \* _search_any_destination: destinations still to search
    all_flights,         \* _search_any_destination: all_flights
    response,            \* <<>> until search_flights returns, then <<FlightSearchResponse>>
    raised,              \* TRUE iff an exception left search_flights
    caught,              \* the exceptions that reached the except clause of search_flights
    log,                 \* the search's calls of Ryanair.get_cheapest_flights, in order
    fetches,             \* the search's calls of client.search_flights, in order
    matches,             \* every call of _match_flight_legs: its arguments and result
    num_queries          \* Ryanair._num_queries

vars ==
    <<ryanair_client, calls, instances, handed,
      csv, airports, reply, task, waiting, request, upstream, directory, pc, direct_flights, connecting_flights,
      hub_airports, destinations, all_flights, response, raised, caught, log,
      fetches, matches, num_queries>>

(***************************************************************************)
(* Bounds and program constants                                            *)
(***************************************************************************)
MaxFlex == 1
\* the longest airports table
MaxRows == 4
NumCallers == 2
MaxCalls == 2
\* dates are day numbers, date.min being day 1; the day most requests ask for
BaseDate == 10

MIN_LAYOVER_MINUTES == 90
MAX_LAYOVER_MINUTES == 360
max_retries == 3
MaxDestinations == 50
MaxResults == 100
DefaultDuration == 150

Day == 24 * 3600
At(h, m, s) == h * 3600 + m * 60 + s

(***************************************************************************)
(* Sequence helpers                                                        *)
(***************************************************************************)
RECURSIVE Concat(_)
Concat(ss) ==
    IF ss = <<>> THEN <<>> ELSE Head(ss) \o Concat(Tail(ss))

Take(s, n) ==
    IF Len(s) <= n THEN s ELSE SubSeq(s, 1, n)

Range(s) == {s[i] : i \in DOMAIN s}

\* Python int(x / d) for an integer number of seconds x: truncation toward zero
TruncDiv(x, d) ==
    IF x >= 0 THEN x \div d ELSE -((-x) \div d)

\* list.sort(key=...) on a list of <<key, item>>, a key being a pair <<k1, k2>>
\* compared as Python compares tuples.  The sort is stable: an element lands
\* behind the elements with a smaller key and behind the equal-keyed elements
\* that stood before it.
KeyLess(a, b) ==
    a[1] < b[1] \/ (a[1] = b[1] /\ a[2] < b[2])

SortKeyed(s) ==
    LET place == [i \in DOMAIN s |->
                    1 + Cardinality({j \in DOMAIN s :
                                       \/ KeyLess(s[j][1], s[i][1])
                                       \/ (j < i /\ ~KeyLess(s[i][1], s[j][1]))})]
    IN  [p \in DOMAIN s |-> s[CHOOSE i \in DOMAIN s : place[i] = p]]

\* str.upper() on the spellings the requests use
Upper(s) ==
    CASE s = "any" -> "ANY"
      [] s = "Any" -> "ANY"
      [] s = "dub" -> "DUB"
      [] s = "stn" -> "STN"
      [] s = "bgy" -> "BGY"
      [] OTHER -> s

(***************************************************************************)
(* The upstream fare service (the peer of session.get): what it holds for  *)
(* one departure airport and one day, as outbound fare records.  A record  *)
(* carries the arrival airport, the departure time of day (absent when the *)
(* record has no departureDate), the price (a value, a missing key or a    *)
(* null), whether its ISO timestamp carries a UTC offset, the flight       *)
(* number, and the arrival time of day and the duration in minutes when    *)
(* the record supplies them.                                               *)
(***************************************************************************)
Fare(dest, dep, cents, tz, fn) ==
    [dest |-> dest, dep |-> <<dep>>, price |-> [kind |-> "value", v |-> cents],
     tz |-> tz, fn |-> fn, arr |-> <<>>, dur |-> <<>>]

NoPrice(f) == [f EXCEPT !.price = [kind |-> "missing", v |-> 0]]
NullPrice(f) == [f EXCEPT !.price = [kind |-> "null", v |-> 0]]
NoDeparture(f) == [f EXCEPT !.dep = <<>>]
Arriving(f, arr) == [f EXCEPT !.arr = <<arr>>]
Lasting(f, minutes) == [f EXCEPT !.dur = <<minutes>>]

\* scenario 1: a direct route whose price falls from day to day, and one hub
\* whose onward flights leave 89, 90, 120, 360 and 361 minutes after the
\* first leg lands (07:30 + 150 minutes = 10:00)
Fares1(airport, date) ==
    CASE airport = "DUB" ->
           << Fare("STN", At(7, 30, 0), 1500, "naive", 101),
              Fare("BGY", At(9, 0, 0), 2999 - 500 * (date - BaseDate), "naive", 102) >>
      [] airport = "STN" ->
           << Fare("BGY", At(11, 29, 0), 1000, "naive", 201),
              Fare("BGY", At(11, 30, 0), 1200, "naive", 202),
              Fare("BGY", At(12, 0, 0), 900, "naive", 203),
              Fare("BGY", At(16, 0, 0), 800, "naive", 204),
              Fare("BGY", At(16, 1, 0), 700, "naive", 205) >>
      [] OTHER -> <<>>

\* scenario 2: no direct route; two first legs to one hub, each with two valid
\* onward flights (one 30 seconds past the minute) and one that leaves 60
\* minutes after the first lands, and a second hub reached
\* by a flight without a price
Fares2(airport, date) ==
    CASE airport = "DUB" ->
           << Fare("STN", At(7, 30, 0), 1500, "naive", 101),
              Fare("STN", At(8, 0, 0), 1400, "naive", 103),
              NoPrice(Fare("MAD", At(6, 0, 0), 0, "naive", 104)) >>
      [] airport = "STN" ->
           << Fare("BGY", At(11, 0, 0), 950, "naive", 207),
              Fare("BGY", At(12, 0, 30), 900, "naive", 203),
              Fare("BGY", At(13, 0, 0), 900, "naive", 206) >>
      [] airport = "MAD" ->
           << Fare("BGY", At(10, 0, 0), 2000, "naive", 301),
              Fare("BGY", At(9, 59, 30), 100, "naive", 302) >>
      [] OTHER -> <<>>

\* scenario 3: the direct route answers with an offset-aware timestamp on the
\* day after the base date and with naive ones otherwise
Fares3(airport, date) ==
    CASE airport = "DUB" ->
           << Fare("BGY", At(9, 0, 0), 2999,
                   IF date = BaseDate + 1 THEN "aware" ELSE "naive", 102),
              Fare("STN", At(7, 30, 0), 1500, "naive", 101) >>
      [] airport = "STN" ->
           << Fare("BGY", At(12, 0, 0), 900, "naive", 203) >>
      [] OTHER -> <<>>

\* scenario 4: the first leg to MAD mixes aware and naive timestamps on every
\* day; the second leg from STN mixes them on the base date only; BCN, visited
\* after both, has a valid connection
Fares4(airport, date) ==
    CASE airport = "DUB" ->
           << Fare("BGY", At(9, 0, 0), 2999, "naive", 102),
              Fare("STN", At(7, 30, 0), 1500, "naive", 101),
              Fare("MAD", At(6, 0, 0), 1100, "naive", 104),
              Fare("MAD", At(6, 30, 0), 1100, "aware", 105),
              Fare("BCN", At(7, 0, 0), 1300, "naive", 106) >>
      [] airport = "STN" ->
           IF date = BaseDate
           THEN << Fare("BGY", At(12, 0, 0), 900, "naive", 203),
                   Fare("BGY", At(13, 0, 0), 900, "aware", 206) >>
           ELSE << Fare("BGY", At(12, 0, 0), 900, "naive", 203) >>
      [] airport = "MAD" ->
           << Fare("BGY", At(10, 0, 0), 2000, "naive", 301) >>
      [] airport = "BCN" ->
           << Fare("BGY", At(11, 0, 0), 600, "naive", 401) >>
      [] OTHER -> <<>>

\* scenario 5: records the parser cannot read (no departureDate, a null price)
\* beside well-formed ones, two of which supply an arrival time (one earlier
\* than the departure, as local times of a westbound flight are) and one a
\* duration
Fares5(airport, date) ==
    CASE airport = "DUB" ->
           << Arriving(Fare("BGY", At(9, 0, 0), 2999, "naive", 102), At(8, 40, 0)),
              Lasting(Arriving(Fare("STN", At(7, 30, 0), 1500, "naive", 101),
                               At(9, 0, 0)), 45),
              IF date = BaseDate
              THEN NoDeparture(Fare("CRL", At(5, 0, 0), 500, "naive", 107))
              ELSE IF date = BaseDate + 1
              THEN NullPrice(Fare("BGY", At(18, 0, 0), 0, "naive", 108))
              ELSE Fare("CRL", At(5, 0, 0), 500, "naive", 107) >>
      [] airport = "STN" ->
           << Fare("BGY", At(12, 0, 0), 900, "naive", 203),
              NullPrice(Fare("CIA", At(12, 0, 0), 0, "naive", 207)) >>
      [] OTHER -> <<>>

\* scenario 6: three destinations, one flight a day to each, listed out of
\* price order
Fares6(airport, date) ==
    CASE airport = "DUB" ->
           << Fare("STN", At(7, 30, 0), 1500, "naive", 101),
              Fare("BGY", At(9, 0, 0), 999, "naive", 102),
              Fare("MAD", At(6, 0, 0), 1200, "naive", 104) >>
      [] OTHER -> <<>>

Scenarios == 0 .. 6

\* scenario 0 holds no fares at all
FaresIn(scn, airport, date) ==
    CASE scn = 1 -> Fares1(airport, date)
      [] scn = 2 -> Fares2(airport, date)
      [] scn = 3 -> Fares3(airport, date)
      [] scn = 4 -> Fares4(airport, date)
      [] scn = 5 -> Fares5(airport, date)
      [] scn = 6 -> Fares6(airport, date)
      [] OTHER -> <<>>

\* the service reads the airport code in either case
FaresOf(scn, airport, date) == FaresIn(scn, Upper(airport), date)

\* How one HTTP attempt ends: a parsed body, a requests RequestException
\* (timeout, connection error, 4xx/5xx by raise_for_status), or another
\* exception.  A net is the outcomes of the successive attempts of one call;
\* attempts past its end succeed.
Nets ==
    { <<>>,
      <<"request_exception">>,
      <<"request_exception", "request_exception">>,
      <<"request_exception", "request_exception", "request_exception">>,
      <<"exception">>,
      <<"request_exception", "exception">>,
      <<"request_exception", "request_exception", "exception">> }

\* the upstream's trouble: at most one (airport, day) whose calls go wrong
NetOf(w, airport, date) ==
    IF w.spot # <<>> /\ w.spot[1].airport = Upper(airport) /\ w.spot[1].date = date
    THEN w.spot[1].net
    ELSE <<>>

(***************************************************************************)
(* lib/ryanair_internal.py                                                 *)
(***************************************************************************)
\* Ryanair._make_api_request: the attempt loop from 0-based attempt `attempt`
RECURSIVE ApiAttempt(_, _)
ApiAttempt(net, attempt) ==
    LET outcome == IF attempt + 1 <= Len(net) THEN net[attempt + 1] ELSE "ok"
    IN  IF outcome = "ok"
        THEN [status |-> "ok", attempts |-> attempt + 1]
        ELSE IF outcome = "request_exception"
        THEN IF attempt = max_retries - 1
             THEN [status |-> "RyanairAPIError", attempts |-> attempt + 1]
             ELSE ApiAttempt(net, attempt + 1)
        ELSE [status |-> "RyanairAPIError", attempts |-> attempt + 1]

\* a request made once, without the retry loop
MakeApiRequestOnce(net) ==
    [status |-> IF net = <<>> \/ net[1] = "ok" THEN "ok" ELSE "RyanairAPIError",
     attempts |-> 1]

MakeApiRequest(net) == ApiAttempt(net, 0)

\* a parser that hands on the arrival time and the duration of the record
ParseCheapestFlightWithArrival(airport, date, rec) ==
    IF rec.dep = <<>> \/ rec.price.kind = "null"
    THEN <<>>
    ELSE << [origin |-> Upper(airport),
             destination |-> rec.dest,
             departureTime |-> <<[t |-> date * Day + rec.dep[1], tz |-> rec.tz]>>,
             arrivalTime |-> IF rec.arr = <<>> THEN <<>>
                             ELSE <<[t |-> date * Day + rec.arr[1], tz |-> rec.tz]>>,
             duration |-> rec.dur,
             flightNumber |-> rec.fn,
             price |-> IF rec.price.kind = "missing" THEN 0 ELSE rec.price.v,
             currency |-> "EUR"] >>

\* Ryanair._parse_cheapest_flight: <<Flight>>, or <<>> when it raises
\* RyanairAPIError (datetime.fromisoformat("") and float(None) raise)
ParseCheapestFlight(airport, date, rec) ==
    IF rec.dep = <<>> \/ rec.price.kind = "null"
    THEN <<>>
    ELSE << [origin |-> Upper(airport),
             destination |-> rec.dest,
             departureTime |-> <<[t |-> date * Day + rec.dep[1], tz |-> rec.tz]>>,
             flightNumber |-> rec.fn,
             price |-> IF rec.price.kind = "missing" THEN 0 ELSE rec.price.v,
             currency |-> "EUR"] >>

\* the list comprehension of get_cheapest_flights over the fares of a body
ParseFares(airport, date, fares) ==
    [i \in DOMAIN fares |-> ParseCheapestFlight(airport, date, fares[i])]

\* get_cheapest_flights, lines 116-128: the parsed flights when the request
\* and every parse succeeded; any exception is logged and answered with []
CheapestFlights(http, parsed) ==
    [raised |-> FALSE,
     flights |-> IF http.status # "ok" \/ \E i \in DOMAIN parsed : parsed[i] = <<>>
                 THEN <<>>
                 ELSE [i \in DOMAIN parsed |-> parsed[i][1]],
     http |-> http.status,
     attempts |-> http.attempts]

\* Ryanair.get_cheapest_flights(airport, date, date): the list it returns, with
\* how its API request ended and the attempts that took
GetCheapestFlights(w, airport, date) ==
    CheapestFlights(MakeApiRequest(NetOf(w, airport, date)),
                    ParseFares(airport, date, FaresOf(w.scn, airport, date)))

(***************************************************************************)
(* lib/ryanair_client.py                                                   *)
(***************************************************************************)
\* the route_durations table of _estimate_flight_duration (0: no entry)
RouteDuration(o, d) ==
    CASE o = "STN" /\ d = "SKG" -> 200
      [] o = "STN" /\ d = "BGY" -> 120
      [] o = "STN" /\ d = "WMI" -> 140
      [] o = "BGY" /\ d = "SKG" -> 140
      [] o = "WMI" /\ d = "SKG" -> 160
      [] OTHER -> 0

\* RyanairAPIClient._estimate_flight_duration (minutes)
EstimateFlightDuration(origin, destination) ==
    IF RouteDuration(origin, destination) # 0
    THEN RouteDuration(origin, destination)
    ELSE IF RouteDuration(destination, origin) # 0
    THEN RouteDuration(destination, origin)
    ELSE DefaultDuration

\* getattr(flight, name, None): an attribute the object lacks reads as None
GetAttr(flight, name) ==
    IF name \in DOMAIN flight THEN flight[name] ELSE <<>>

\* _convert_ryanair_flight, lines 68-83
RegularFare(flight) ==
    IF "price" \in DOMAIN flight
    THEN <<[amount |-> flight.price,
            currency |-> IF "currency" \in DOMAIN flight
                         THEN flight.currency ELSE "EUR"]>>
    ELSE IF "regularFare" \in DOMAIN flight /\ flight.regularFare # <<>>
    THEN <<flight.regularFare[1]>>
    ELSE <<>>

\* _convert_ryanair_flight, lines 63-101: the duration from the two times when
\* it is still unknown, and the RyanairFlightResponse; <<>> is the None
\* returned when a time is missing or the subtraction meets an aware and a
\* naive datetime
ConvertTimed(flight, origin, destination, departure_time, arrival_time, duration) ==
    IF departure_time = <<>> \/ arrival_time = <<>>
    THEN <<>>
    ELSE IF duration = <<>> /\ departure_time[1].tz # arrival_time[1].tz
    THEN <<>>
    ELSE << [flight_number |-> flight.flightNumber,
             origin |-> origin,
             destination |-> destination,
             departure_time |-> departure_time[1],
             arrival_time |-> arrival_time[1],
             duration_minutes |->
                 IF duration = <<>>
                 THEN <<TruncDiv(arrival_time[1].t - departure_time[1].t, 60)>>
                 ELSE duration,
             regular_fare |-> RegularFare(flight),
             operator |-> "Ryanair"] >>

\* _convert_ryanair_flight, lines 49-61: the arrival time from the duration, or
\* from the estimate for the route
ConvertArrival(flight, origin, destination, departure_time, arrival_time, duration, estimated) ==
    IF arrival_time = <<>> /\ departure_time # <<>> /\ duration # <<>> /\ duration[1] # 0
    THEN ConvertTimed(flight, origin, destination, departure_time,
                      <<[departure_time[1] EXCEPT !.t = @ + 60 * duration[1]]>>,
                      duration)
    ELSE IF arrival_time = <<>> /\ departure_time # <<>>
    THEN ConvertTimed(flight, origin, destination, departure_time,
                      <<[departure_time[1] EXCEPT !.t = @ + 60 * estimated]>>,
                      <<estimated>>)
    ELSE ConvertTimed(flight, origin, destination, departure_time, arrival_time,
                      duration)

\* RyanairAPIClient._convert_ryanair_flight: <<RyanairFlightResponse>>, or <<>>
\* for the None it returns when building the response raised
ConvertRyanairFlight(flight, origin, destination) ==
    ConvertArrival(flight, origin, destination,
                   GetAttr(flight, "departureTime"), GetAttr(flight, "arrivalTime"),
                   GetAttr(flight, "duration"),
                   EstimateFlightDuration(origin, destination))

\* the amount read by x.regular_fare.get("amount", 0) if x.regular_fare else 0
FareAmount(flight) ==
    IF flight.regular_fare # <<>> THEN flight.regular_fare[1].amount ELSE 0

FareCurrency(flight) ==
    IF flight.regular_fare # <<>> THEN flight.regular_fare[1].currency ELSE "EUR"

\* the request's departure flexibility in days (None and an absent
\* date_flexibility read as 0)
FlexibilityDays(req) ==
    IF req.date_flexibility # <<>> THEN req.date_flexibility[1] ELSE 0

\* a date loop that stops before date_to
DatesBefore(base, days) ==
    [i \in 1 .. (2 * days) |-> base - days + (i - 1)]

\* the dates date_from .. date_to walked by `while current_date <= date_to`
DatesAround(base, days) ==
    [i \in 1 .. (2 * days + 1) |-> base - days + (i - 1)]

SearchDates(req) == DatesAround(req.departure_date, FlexibilityDays(req))

\* search_flights, lines 168-194: the flights of one day kept for the
\* destination (none when the day's query raised), with a note of the query
DailyKept(req, date, daily_flights) ==
    [entry |-> [airport |-> req.origin, destination |-> req.destination,
                date |-> date, http |-> daily_flights.http,
                raised |-> daily_flights.raised,
                attempts |-> daily_flights.attempts,
                returned |-> Len(daily_flights.flights)],
     flights |-> IF daily_flights.raised THEN <<>>
                 ELSE SelectSeq(daily_flights.flights,
                                LAMBDA flight : flight.destination = req.destination)]

\* one pass of the date loop
DailyQuery(w, req, date) ==
    DailyKept(req, date, GetCheapestFlights(w, req.origin, date))

\* search_flights, lines 201-208
ConvertAll(req, found) ==
    Concat([i \in DOMAIN found |->
               ConvertRyanairFlight(found[i], req.origin, req.destination)])

\* search_flights, lines 215-222: the sort by (departure_time, amount)
SortByDeparture(converted_flights) ==
    SortKeyed([i \in DOMAIN converted_flights |->
                  << <<converted_flights[i].departure_time.t,
                       FareAmount(converted_flights[i])>>,
                     converted_flights[i] >>])

\* the sort compares datetimes: it raises TypeError once the list holds an
\* aware and a naive one
SortRaises(converted_flights) ==
    Cardinality({converted_flights[i].departure_time.tz :
                    i \in DOMAIN converted_flights}) > 1

SortedFlights(converted_flights, sorted, queries) ==
    [raised |-> SortRaises(converted_flights),
     error |-> "can't compare offset-naive and offset-aware datetimes",
     flights |-> IF SortRaises(converted_flights) THEN <<>>
                 ELSE [i \in DOMAIN sorted |-> sorted[i][2]],
     queries |-> queries]

ConvertAndSort(converted_flights, queries) ==
    SortedFlights(converted_flights, SortByDeparture(converted_flights), queries)

\* a date loop that gives up on the first day whose query failed
SearchOverAborting(req, daily) ==
    IF \E i \in DOMAIN daily : daily[i].entry.http # "ok"
    THEN [raised |-> TRUE, error |-> "upstream unavailable", flights |-> <<>>,
          queries |-> [i \in DOMAIN daily |-> daily[i].entry]]
    ELSE ConvertAndSort(ConvertAll(req, Concat([i \in DOMAIN daily |-> daily[i].flights])),
                        [i \in DOMAIN daily |-> daily[i].entry])

SearchOver(req, daily) ==
    ConvertAndSort(ConvertAll(req, Concat([i \in DOMAIN daily |-> daily[i].flights])),
                   [i \in DOMAIN daily |-> daily[i].entry])

SearchOn(w, req, dates) ==
    SearchOver(req, [i \in DOMAIN dates |-> DailyQuery(w, req, dates[i])])

\* RyanairAPIClient.search_flights: the converted flights sorted by
\* (departure_time, amount), or raised when the sort raised; with the queries
\* it made
\* (base_departure_date - timedelta(days=flexibility_days) raises OverflowError
\* below date.min, before any query)
SearchFlights(w, req) ==
    IF req.departure_date - FlexibilityDays(req) < 1
    THEN [raised |-> TRUE, error |-> "date value out of range",
          flights |-> <<>>, queries |-> <<>>]
    ELSE SearchOn(w, req, SearchDates(req))

\* RyanairAPIClient.get_destinations_from_origin of this repository
GetDestinationsFromOrigin(origin_airport_code) == <<>>

(***************************************************************************)
(* lib/flight_analyzer.py                                                  *)
(***************************************************************************)
major_hubs ==
    <<"STN", "DUB", "BGY", "CRL", "BVA", "CIA", "MAD", "BCN", "OPO", "EDI",
      "MAN", "BRE", "WMI">>

\* a hub list that leaves the origin in
HubsExceptDestination(origin, destination) ==
    SelectSeq(major_hubs, LAMBDA hub : hub # destination)

\* FlightAnalyzer._get_potential_hubs
GetPotentialHubs(origin, destination) ==
    SelectSeq(major_hubs, LAMBDA hub : hub \notin {origin, destination})

\* a segment that takes the flight's airports the wrong way round
SegmentReversed(flight, index) ==
    [leg_type |-> "outbound",
     segment_index |-> index,
     origin_airport |-> flight.destination,
     destination_airport |-> flight.origin,
     departure_datetime |-> flight.departure_time,
     arrival_datetime |-> flight.arrival_time,
     flight_number |-> flight.flight_number,
     duration_minutes |->
         IF flight.duration_minutes # <<>> THEN flight.duration_minutes[1] ELSE 0,
     price |-> FareAmount(flight),
     currency |-> FareCurrency(flight)]

\* the FlightSegment built from one RyanairFlightResponse
Segment(flight, index) ==
    [leg_type |-> "outbound",
     segment_index |-> index,
     origin_airport |-> flight.origin,
     destination_airport |-> flight.destination,
     departure_datetime |-> flight.departure_time,
     arrival_datetime |-> flight.arrival_time,
     flight_number |-> flight.flight_number,
     duration_minutes |->
         IF flight.duration_minutes # <<>> THEN flight.duration_minutes[1] ELSE 0,
     price |-> FareAmount(flight),
     currency |-> FareCurrency(flight)]

DirectOption(segment) ==
    [type |-> "direct",
     total_price |-> segment.price,
     currency |-> segment.currency,
     legs |-> <<segment>>,
     layovers |-> <<>>]

\* FlightAnalyzer._convert_to_flight_option: <<FlightOption>>
ConvertToFlightOption(flight) == <<DirectOption(Segment(flight, 0))>>

\* the layover test with both bounds exclusive
LayoverRejectedExclusive(layover_time) ==
    layover_time <= 60 * MIN_LAYOVER_MINUTES \/ layover_time >= 60 * MAX_LAYOVER_MINUTES

\* the layover test of _create_connection, on a gap in seconds
LayoverRejected(layover_time) ==
    layover_time < 60 * MIN_LAYOVER_MINUTES \/ layover_time > 60 * MAX_LAYOVER_MINUTES

OneStopOption(first_segment, second_segment, layover) ==
    [type |-> "one-stop",
     total_price |-> first_segment.price + second_segment.price,
     currency |-> first_segment.currency,
     legs |-> <<first_segment, second_segment>>,
     layovers |-> <<layover>>]

\* a connection whose layover counts a started minute as a whole one
CreateConnectionRoundingUp(first_flight, second_flight, hub) ==
    IF second_flight.departure_time.tz # first_flight.arrival_time.tz
    THEN [raised |-> TRUE, option |-> <<>>]
    ELSE IF LayoverRejected(second_flight.departure_time.t - first_flight.arrival_time.t)
    THEN [raised |-> FALSE, option |-> <<>>]
    ELSE [raised |-> FALSE,
          option |-> << OneStopOption(
                          Segment(first_flight, 0), Segment(second_flight, 1),
                          [airport |-> hub,
                           duration_minutes |->
                               TruncDiv(second_flight.departure_time.t
                                        - first_flight.arrival_time.t + 59, 60)]) >>]

\* FlightAnalyzer._create_connection: <<FlightOption>>, <<>> for None; it raises
\* when the subtraction meets an aware and a naive datetime
CreateConnection(first_flight, second_flight, hub) ==
    IF second_flight.departure_time.tz # first_flight.arrival_time.tz
    THEN [raised |-> TRUE, option |-> <<>>]
    ELSE IF LayoverRejected(second_flight.departure_time.t - first_flight.arrival_time.t)
    THEN [raised |-> FALSE, option |-> <<>>]
    ELSE [raised |-> FALSE,
          option |-> << OneStopOption(
                          Segment(first_flight, 0), Segment(second_flight, 1),
                          [airport |-> hub,
                           duration_minutes |->
                               TruncDiv(second_flight.departure_time.t
                                        - first_flight.arrival_time.t, 60)]) >>]

\* _match_flight_legs, lines 333-341: a pair that raised is skipped like a
\* pair that made no connection
Connection(connection) ==
    IF connection.raised THEN <<>> ELSE connection.option

\* FlightAnalyzer._match_flight_legs
MatchFlightLegs(first_leg_flights, second_leg_flights, hub) ==
    Concat([i \in DOMAIN first_leg_flights |->
        Concat([j \in DOMAIN second_leg_flights |->
            Connection(CreateConnection(first_leg_flights[i],
                                        second_leg_flights[j], hub))])])

\* the stage and hub a query was made for
Tag(entries, stage, hub) ==
    [i \in DOMAIN entries |->
        [airport |-> entries[i].airport, destination |-> entries[i].destination,
         date |-> entries[i].date, http |-> entries[i].http,
         raised |-> entries[i].raised, attempts |-> entries[i].attempts,
         returned |-> entries[i].returned, stage |-> stage, hub |-> hub]]

\* a note of one call of client.search_flights: what it was asked and how it ended
Note(stage, hub, req, result) ==
    [stage |-> stage, hub |-> hub, origin |-> req.origin,
     destination |-> req.destination, date |-> req.departure_date,
     days |-> FlexibilityDays(req), raised |-> result.raised,
     flights |-> result.flights]

\* _search_direct_flights, lines 79-90
DirectOptions(ryanair_flights) ==
    [raised |-> ryanair_flights.raised,
     error |-> ryanair_flights.error,
     flights |-> ryanair_flights.flights,
     options |-> Concat([i \in DOMAIN ryanair_flights.flights |->
                            ConvertToFlightOption(ryanair_flights.flights[i])]),
     queries |-> ryanair_flights.queries]

\* FlightAnalyzer._search_direct_flights
SearchDirectFlights(w, req) == DirectOptions(SearchFlights(w, req))

\* the request of one leg
LegRequest(req, origin, destination, date, flexibility) ==
    [origin |-> origin, destination |-> destination, departure_date |-> date,
     date_flexibility |-> flexibility, max_connections |-> 0,
     include_connections |-> TRUE]

\* a second-leg request that keeps the flexibility of the search
SecondLegRequestFlexible(req, hub, date) ==
    LegRequest(req, hub, req.destination, date, req.date_flexibility)

\* _find_connections_via_hub, lines 241-252
SecondLegRequest(req, hub, date) ==
    LegRequest(req, hub, req.destination, date, <<0>>)

\* a second leg that keeps nothing once the search of one date raised
SecondLegAllOrNothing(req, hub, dates, searches) ==
    [flights |-> IF \E i \in DOMAIN searches : searches[i].raised THEN <<>>
                 ELSE Concat([i \in DOMAIN searches |-> searches[i].flights]),
     queries |-> Concat([i \in DOMAIN searches |-> searches[i].queries]),
     fetches |-> [i \in DOMAIN searches |->
                     Note("second_leg", hub, SecondLegRequest(req, hub, dates[i]),
                          searches[i])]]

\* _find_connections_via_hub, lines 257-269: a date whose search raised is
\* skipped, the flights of the others are gathered
SecondLeg(req, hub, dates, searches) ==
    [flights |-> Concat([i \in DOMAIN searches |->
                            IF searches[i].raised THEN <<>> ELSE searches[i].flights]),
     queries |-> Concat([i \in DOMAIN searches |-> searches[i].queries]),
     fetches |-> [i \in DOMAIN searches |->
                     Note("second_leg", hub, SecondLegRequest(req, hub, dates[i]),
                          searches[i])]]

\* a second leg searched from the departure date on only
SearchSecondLegFromDeparture(w, req, hub, dates) ==
    SecondLeg(req, hub, SelectSeq(dates, LAMBDA d : d >= req.departure_date),
              [i \in DOMAIN SelectSeq(dates, LAMBDA d : d >= req.departure_date) |->
                  SearchFlights(w, SecondLegRequest(req, hub,
                      SelectSeq(dates, LAMBDA d : d >= req.departure_date)[i]))])

\* _find_connections_via_hub, lines 220-269: the second leg, one search of
\* flexibility 0 per date of the window
SearchSecondLeg(w, req, hub, dates) ==
    SecondLeg(req, hub, dates,
              [i \in DOMAIN dates |->
                  SearchFlights(w, SecondLegRequest(req, hub, dates[i]))])

\* _find_connections_via_hub, lines 271-285
MatchedVia(hub, first_flights, second_flights, leg_connections, queries, notes) ==
    [connections |-> leg_connections,
     queries |-> queries,
     fetches |-> notes,
     matched |-> << [hub |-> hub, first |-> first_flights,
                     second |-> second_flights,
                     connections |-> leg_connections] >>]

\* _find_connections_via_hub, lines 187-290, on the two legs' searches: a first
\* leg that raised (caught at line 287) or found nothing ends the hub before
\* the second leg is searched
\* a hub search that fetches the second leg and matches whatever the first
\* leg returned
ConnectionsViaRegardless(hub, first_note, first_leg, second_leg) ==
    MatchedVia(hub, first_leg.flights, second_leg.flights,
               MatchFlightLegs(first_leg.flights, second_leg.flights, hub),
               Tag(first_leg.queries, "first_leg", hub)
               \o Tag(second_leg.queries, "second_leg", hub),
               <<first_note>> \o second_leg.fetches)

ConnectionsVia(hub, first_note, first_leg, second_leg) ==
    IF first_leg.raised \/ first_leg.flights = <<>>
    THEN [connections |-> <<>>,
          queries |-> Tag(first_leg.queries, "first_leg", hub),
          fetches |-> <<first_note>>,
          matched |-> <<>>]
    ELSE IF second_leg.flights = <<>>
    THEN [connections |-> <<>>,
          queries |-> Tag(first_leg.queries, "first_leg", hub)
                      \o Tag(second_leg.queries, "second_leg", hub),
          fetches |-> <<first_note>> \o second_leg.fetches,
          matched |-> <<>>]
    ELSE MatchedVia(hub, first_leg.flights, second_leg.flights,
                    MatchFlightLegs(first_leg.flights, second_leg.flights, hub),
                    Tag(first_leg.queries, "first_leg", hub)
                    \o Tag(second_leg.queries, "second_leg", hub),
                    <<first_note>> \o second_leg.fetches)

\* _find_connections_via_hub, lines 189-197
FirstLegRequest(req, hub) ==
    LegRequest(req, req.origin, hub, req.departure_date, req.date_flexibility)

FirstLeg(req, hub, first_leg, second_leg) ==
    ConnectionsVia(hub, Note("first_leg", hub, FirstLegRequest(req, hub), first_leg),
                   first_leg, second_leg)

\* FlightAnalyzer._find_connections_via_hub
FindConnectionsViaHub(w, req, hub) ==
    FirstLeg(req, hub,
        SearchFlights(w, FirstLegRequest(req, hub)),
        SearchSecondLeg(w, req, hub,
                        DatesAround(req.departure_date, FlexibilityDays(req))))

\* the test of line 36 without upper()
IsExactlyAny(req) == req.destination = "ANY"

\* search_flights, line 36
IsAnyDestination(req) == Upper(req.destination) = "ANY"

\* the connection search without the test of line 44
ConnectionSearchAlways(req) == TRUE

\* search_flights, line 44
ConnectionSearchEnabled(req) == req.max_connections > 0

\* all_flights.sort(key=lambda x: x.total_price)
Unkeyed(sorted) == [i \in DOMAIN sorted |-> sorted[i][2]]

\* the list left in the order it was gathered
UnsortedByPrice(flights) == flights

SortByPrice(flights) ==
    Unkeyed(SortKeyed([i \in DOMAIN flights |->
                          << <<flights[i].total_price, 0>>, flights[i] >>]))

\* search_flights, lines 51-57
Response(flights, direct_count, connecting_count) ==
    [flights |-> flights,
     total_results |-> Len(flights),
     direct_flights_count |-> direct_count,
     connecting_flights_count |-> connecting_count,
     error |-> <<>>]

\* search_flights, lines 47-57: combine, sort, respond
CombinedResponse(req, direct, connecting) ==
    Response(SortByPrice(direct \o connecting), Len(direct), Len(connecting))

\* _search_any_destination, lines 149-155
TruncatedResponse(sorted) ==
    [flights |-> Take(sorted, MaxResults),
     total_results |-> Len(sorted),
     direct_flights_count |-> Len(sorted),
     connecting_flights_count |-> 0,
     error |-> <<>>]

\* the truncation done before the sort
AnyDestinationTruncatedFirst(req, found) ==
    TruncatedResponse(SortByPrice(Take(found, MaxResults)))

\* _search_any_destination, lines 146-155: sort, truncate, respond
AnyDestinationResponse(req, found) == TruncatedResponse(SortByPrice(found))

\* an except clause that lets the exception go on to the caller
SearchFailedRaising(req, e) == [raised |-> TRUE, response |-> <<>>]

\* search_flights, lines 59-68: what the except clause makes of exception e
SearchFailed(req, e) ==
    [raised |-> FALSE,
     response |-> << [flights |-> <<>>,
                      total_results |-> 0,
                      direct_flights_count |-> 0,
                      connecting_flights_count |-> 0,
                      error |-> <<e>>] >>]

\* the destinations the directory answers with for `origin`: the client of this
\* repository, or a directory handed to the analyzer in its place
DirectoryAnswer(dir, origin) ==
    IF dir.kind = "client" THEN GetDestinationsFromOrigin(origin) ELSE dir.list

\* destinations[:50]
CappedDestinations(list) == Take(list, MaxDestinations)

RECURSIVE SumAttempts(_)
SumAttempts(entries) ==
    IF entries = <<>> THEN 0
    ELSE Head(entries).attempts + SumAttempts(Tail(entries))

(***************************************************************************)
(* The inputs: requests, upstream worlds, directories                      *)
(***************************************************************************)
\* the threads that call get_ryanair_client, and how often each calls
Callers == 1 .. NumCallers

Flexibilities == {<<>>} \cup {<<n>> : n \in 0 .. MaxFlex}

Window == (BaseDate - MaxFlex) .. (BaseDate + MaxFlex)

Exhausted == <<"request_exception", "request_exception", "request_exception">>

Spots ==
    {<<>>} \cup
    { <<[airport |-> a, date |-> d, net |-> n]>> :
        a \in {"DUB", "STN", "MAD"}, d \in Window, n \in Nets \ {<<>>} }

Str(code) == [code |-> code, str |-> TRUE]
AirportInfo(code) == [code |-> code, str |-> FALSE]

LongList ==
    [i \in 1 .. (MaxDestinations + 2) |->
        IF i > MaxDestinations THEN Str("MAD")
        ELSE IF i % 2 = 1 THEN Str("STN") ELSE Str("BGY")]

ShortDirectories ==
    { [kind |-> "client", list |-> <<>>],
      [kind |-> "raises", list |-> <<>>],
      [kind |-> "list", list |-> <<Str("STN"), Str("BGY"), Str("MAD")>>],
      [kind |-> "list", list |-> <<AirportInfo("STN"), Str("BGY")>>] }

LongDirectory == [kind |-> "list", list |-> LongList]

Request(o, d, on, f, m, c) ==
    [origin |-> o, destination |-> d, departure_date |-> on,
     date_flexibility |-> f, max_connections |-> m, include_connections |-> c]

\* a search between two airports against every world
InitSearch ==
    /\ request \in { Request("DUB", "BGY", BaseDate, f, m, TRUE) :
                        f \in Flexibilities, m \in {0, 1} }
    /\ upstream \in [scn : Scenarios, spot : Spots]
    /\ directory = [kind |-> "client", list |-> <<>>]

\* every spelling, flag and date of the request, the network sound
InitSpelling ==
    /\ request \in { Request(o, d, on, f, m, c) :
                        o \in {"DUB", "dub"}, d \in {"BGY", "bgy", "STN"},
                        on \in {BaseDate, 1},
                        f \in Flexibilities, m \in {0, 1}, c \in BOOLEAN }
    /\ upstream \in [scn : Scenarios, spot : {<<>>}]
    /\ directory = [kind |-> "client", list |-> <<>>]

AnyRequests ==
    { Request("DUB", d, BaseDate, f, m, TRUE) :
        d \in {"ANY", "any"}, f \in Flexibilities, m \in {0, 1} }

DublinDown ==
    <<[airport |-> "DUB", date |-> BaseDate, net |-> Exhausted]>>

\* a search to any destination against every directory: the long one over the
\* upstream that has a flight a day to each of its destinations
InitAny ==
    /\ request \in AnyRequests
    /\ \/ /\ upstream \in [scn : Scenarios, spot : {<<>>, DublinDown}]
          /\ directory \in ShortDirectories
       \/ /\ upstream \in [scn : {1}, spot : {<<>>, DublinDown}]
          /\ directory = LongDirectory

\* the locals of a call of search_flights that has not begun
NewSearch(id, req) ==
    [task |-> id, request |-> req, pc |-> "start", direct_flights |-> <<>>,
     connecting_flights |-> <<>>, hub_airports |-> <<>>, destinations |-> <<>>,
     all_flights |-> <<>>, response |-> <<>>, raised |-> FALSE, caught |-> <<>>,
     log |-> <<>>, fetches |-> <<>>, matches |-> <<>>]

\* the call that is running starts from the locals of `frame`
Begin(frame) ==
    /\ task = frame.task
    /\ request = frame.request
    /\ pc = frame.pc
    /\ direct_flights = frame.direct_flights
    /\ connecting_flights = frame.connecting_flights
    /\ hub_airports = frame.hub_airports
    /\ destinations = frame.destinations
    /\ all_flights = frame.all_flights
    /\ response = frame.response
    /\ raised = frame.raised
    /\ caught = frame.caught
    /\ log = frame.log
    /\ fetches = frame.fetches
    /\ matches = frame.matches

\* the airports endpoint is not called
\* api/index.py, line 40, before any call of get_ryanair_client
NoClientCall ==
    /\ ryanair_client = <<>>
    /\ calls = [c \in Callers |->
                  [pc |-> "idle", started |-> 0, made |-> <<>>, got |-> <<>>,
                   status |-> 0]]
    /\ instances = 0
    /\ handed = {}

NoAirportsCall ==
    /\ csv = [kind |-> "unreadable", rows |-> <<>>]
    /\ airports = <<>>
    /\ reply = <<>>

\* one search over a client that has made no query yet
Init ==
    /\ (InitSearch \/ InitSpelling \/ InitAny)
    /\ NoAirportsCall
    /\ NoClientCall
    /\ Begin(NewSearch(1, request))
    /\ waiting = <<>>
    /\ num_queries = 0

\* the requests of two overlapping searches: with connections over a window
\* and over one day, direct only, to any destination
PairRequests ==
    { Request("DUB", "BGY", BaseDate, <<MaxFlex>>, 1, TRUE),
      Request("DUB", "BGY", BaseDate, <<0>>, 1, TRUE),
      Request("DUB", "BGY", BaseDate, <<>>, 0, TRUE),
      Request("DUB", "ANY", BaseDate, <<0>>, 1, TRUE) }

\* two calls of the search endpoint over the one client of the application
InitPair ==
    /\ request \in PairRequests
    /\ upstream \in [scn : {1, 3}, spot : {<<>>}]
    /\ directory = [kind |-> "list", list |-> <<Str("STN"), Str("BGY"), Str("MAD")>>]
    /\ NoAirportsCall
    /\ NoClientCall
    /\ Begin(NewSearch(1, request))
    /\ waiting \in { <<NewSearch(2, req)>> : req \in PairRequests }
    /\ num_queries = 0

(***************************************************************************)
(* FlightAnalyzer.search_flights, one action per stage                     *)
(***************************************************************************)
Record(queries, notes) ==
    /\ log' = log \o queries
    /\ fetches' = fetches \o notes
    /\ num_queries' = num_queries + SumAttempts(queries)

\* the except clause of search_flights
Fail(e) ==
    /\ caught' = caught \o <<e>>
    /\ response' = SearchFailed(request, e).response
    /\ raised' = SearchFailed(request, e).raised
    /\ pc' = "done"

\* a direct stage that skips its own failure and goes on to the hubs
AfterDirectSkipping(found, hubs) ==
    /\ Record(Tag(found.queries, "direct", ""),
              <<Note("direct", "", request, found)>>)
    /\ direct_flights' = IF found.raised THEN <<>> ELSE found.options
    /\ IF ConnectionSearchEnabled(request) /\ hubs # <<>>
       THEN hub_airports' = hubs /\ pc' = "connection"
       ELSE hub_airports' = <<>> /\ pc' = "merge"
    /\ UNCHANGED <<response, raised, caught>>

\* lines 39-45: what follows the direct search
AfterDirect(found, hubs) ==
    /\ Record(Tag(found.queries, "direct", ""),
              <<Note("direct", "", request, found)>>)
    /\ IF found.raised
       THEN /\ Fail(found.error)
            /\ UNCHANGED <<direct_flights, hub_airports>>
       ELSE /\ direct_flights' = found.options
            /\ IF ConnectionSearchEnabled(request) /\ hubs # <<>>
               THEN hub_airports' = hubs /\ pc' = "connection"
               ELSE hub_airports' = <<>> /\ pc' = "merge"
            /\ UNCHANGED <<response, raised, caught>>

\* lines 39-45: the direct search, then the choice of the connection search
SearchDirect ==
    /\ pc = "start"
    /\ ~IsAnyDestination(request)
    /\ AfterDirect(SearchDirectFlights(upstream, request),
                   GetPotentialHubs(request.origin, request.destination))
    /\ UNCHANGED <<ryanair_client, calls, instances, handed,
                   csv, airports, reply, task, waiting, request, upstream, directory, connecting_flights, destinations,
                   all_flights, matches>>

AfterHub(via) ==
    /\ Record(via.queries, via.fetches)
    /\ connecting_flights' = connecting_flights \o via.connections
    /\ matches' = matches \o via.matched

\* lines 105-111: one pass of the hub loop of _search_connecting_flights
SearchHub ==
    /\ pc = "connection"
    /\ hub_airports # <<>>
    /\ AfterHub(FindConnectionsViaHub(upstream, request, Head(hub_airports)))
    /\ hub_airports' = Tail(hub_airports)
    /\ pc' = IF Tail(hub_airports) = <<>> THEN "merge" ELSE "connection"
    /\ UNCHANGED <<ryanair_client, calls, instances, handed,
                   csv, airports, reply, task, waiting, request, upstream, directory, direct_flights, destinations,
                   all_flights, response, raised, caught>>

\* lines 47-57
MergeAndRank ==
    /\ pc = "merge"
    /\ response' = <<CombinedResponse(request, direct_flights, connecting_flights)>>
    /\ pc' = "done"
    /\ UNCHANGED <<ryanair_client, calls, instances, handed,
                   csv, airports, reply, task, waiting, request, upstream, directory, direct_flights, connecting_flights,
                   hub_airports, destinations, all_flights, raised, caught, log,
                   fetches, matches, num_queries>>

\* lines 36-37 and 122-126: the destinations of the any-destination search
AnyDestinations ==
    /\ pc = "start"
    /\ IsAnyDestination(request)
    /\ IF directory.kind = "raises"
       THEN /\ Fail("directory unavailable")
            /\ UNCHANGED destinations
       ELSE /\ destinations' =
                   CappedDestinations(DirectoryAnswer(directory, request.origin))
            /\ pc' = "any"
            /\ UNCHANGED <<response, raised, caught>>
    /\ UNCHANGED <<ryanair_client, calls, instances, handed,
                   csv, airports, reply, task, waiting, request, upstream, directory, direct_flights, connecting_flights,
                   hub_airports, all_flights, log, fetches, matches, num_queries>>

\* _search_any_destination, lines 129-137
DestinationRequest(req, destination) ==
    LegRequest(req, req.origin, destination, req.departure_date,
               req.date_flexibility)

\* lines 139-144: a destination whose search raised adds nothing
AfterDestination(dest_request, found) ==
    /\ Record(Tag(found.queries, "any", ""), <<Note("any", "", dest_request, found)>>)
    /\ all_flights' = IF found.raised THEN all_flights
                      ELSE all_flights \o found.options

\* lines 126-144: one pass of the destination loop; a destination that is not
\* a string fails the validation of FlightSearchRequest and is skipped
AnySearchDestination ==
    /\ pc = "any"
    /\ destinations # <<>>
    /\ IF Head(destinations).str
       THEN AfterDestination(
                DestinationRequest(request, Head(destinations).code),
                SearchDirectFlights(upstream,
                    DestinationRequest(request, Head(destinations).code)))
       ELSE UNCHANGED <<log, fetches, num_queries, all_flights>>
    /\ destinations' = Tail(destinations)
    /\ UNCHANGED <<ryanair_client, calls, instances, handed,
                   csv, airports, reply, task, waiting, request, upstream, directory, pc, direct_flights,
                   connecting_flights, hub_airports, response, raised, caught,
                   matches>>

\* lines 146-155
AnyRank ==
    /\ pc = "any"
    /\ destinations = <<>>
    /\ response' = <<AnyDestinationResponse(request, all_flights)>>
    /\ pc' = "done"
    /\ UNCHANGED <<ryanair_client, calls, instances, handed,
                   csv, airports, reply, task, waiting, request, upstream, directory, direct_flights, connecting_flights,
                   hub_airports, destinations, all_flights, raised, caught, log,
                   fetches, matches, num_queries>>

Next ==
    \/ SearchDirect
    \/ SearchHub
    \/ MergeAndRank
    \/ AnyDestinations
    \/ AnySearchDestination
    \/ AnyRank

Spec == Init /\ [][Next]_vars

\* searches between two airports, at the base date and at date.min, and one
\* to any destination, against two worlds with and without a failing day
InitFair ==
    /\ \/ /\ request \in { Request("DUB", "BGY", on, f, m, TRUE) :
                               on \in {BaseDate, 1}, f \in Flexibilities,
                               m \in {0, 1} }
          /\ directory = [kind |-> "client", list |-> <<>>]
       \/ /\ request = Request("DUB", "ANY", BaseDate, <<0>>, 1, TRUE)
          /\ directory = [kind |-> "list",
                          list |-> <<Str("STN"), Str("BGY"), Str("MAD")>>]
    /\ upstream \in [scn : {1, 2}, spot : {<<>>, DublinDown}]
    /\ NoAirportsCall
    /\ NoClientCall
    /\ Begin(NewSearch(1, request))
    /\ waiting = <<>>
    /\ num_queries = 0

\* where a search stands: its stage and what its loops have left to do
Position == <<pc, hub_airports, destinations>>

\* the step of a search that has not ended, told by its position: every step
\* of Next moves the position in this way, and a search that has not ended
\* has such a step ahead as long as one of the guards of Next holds
Progress ==
    /\ pc # "done"
    /\ pc' \in {"connection", "merge", "any", "done"}
    /\ hub_airports' \in {<<>>, hub_airports,
                           GetPotentialHubs(request.origin, request.destination)}
                          \cup {Tail(h) : h \in {hub_airports} \ {<<>>}}
    /\ destinations' \in {destinations,
                           CappedDestinations(DirectoryAnswer(directory, request.origin))}
                          \cup {Tail(d) : d \in {destinations} \ {<<>>}}

\* a call of search_flights is run to its end: no await of it waits for
\* anything but an HTTP request, and each request has a timeout
SpecFair == InitFair /\ [][Next]_vars /\ WF_Position(Progress)

(***************************************************************************)
(* Two calls of search_flights_api (api/flights.py) in one process: each   *)
(* builds its own FlightAnalyzer over the client of app.state and keeps    *)
(* its lists in its own frames; control can pass from one call to the      *)
(* other wherever search_flights awaits.                                   *)
(***************************************************************************)
\* the locals of the call that is running
Locals ==
    [task |-> task, request |-> request, pc |-> pc,
     direct_flights |-> direct_flights, connecting_flights |-> connecting_flights,
     hub_airports |-> hub_airports, destinations |-> destinations,
     all_flights |-> all_flights, response |-> response, raised |-> raised,
     caught |-> caught, log |-> log, fetches |-> fetches, matches |-> matches]

\* the call that is running goes on with the locals of `frame`
Resume(frame) ==
    /\ task' = frame.task
    /\ request' = frame.request
    /\ pc' = frame.pc
    /\ direct_flights' = frame.direct_flights
    /\ connecting_flights' = frame.connecting_flights
    /\ hub_airports' = frame.hub_airports
    /\ destinations' = frame.destinations
    /\ all_flights' = frame.all_flights
    /\ response' = frame.response
    /\ raised' = frame.raised
    /\ caught' = frame.caught
    /\ log' = frame.log
    /\ fetches' = frame.fetches
    /\ matches' = frame.matches

\* a switch of a program that keeps the list of connections in one place for
\* both calls
SwitchSharingConnections ==
    /\ waiting # <<>>
    /\ waiting' = <<Locals>>
    /\ Resume([waiting[1] EXCEPT !.connecting_flights = connecting_flights])
    /\ UNCHANGED <<ryanair_client, calls, instances, handed,
                   csv, airports, reply, upstream, directory, num_queries>>

\* a switch of a program that keeps the list of found flights in one place for
\* both calls
SwitchSharingFound ==
    /\ waiting # <<>>
    /\ waiting' = <<Locals>>
    /\ Resume([waiting[1] EXCEPT !.all_flights = all_flights])
    /\ UNCHANGED <<ryanair_client, calls, instances, handed,
                   csv, airports, reply, upstream, directory, num_queries>>

\* the running call is suspended at an await and the other call goes on; the
\* client, its upstream and its query counter are the same for both
Switch ==
    /\ waiting # <<>>
    /\ waiting' = <<Locals>>
    /\ Resume(waiting[1])
    /\ UNCHANGED <<ryanair_client, calls, instances, handed,
                   csv, airports, reply, upstream, directory, num_queries>>

NextPair ==
    \/ Next
    \/ Switch

SpecPair == InitPair /\ [][NextPair]_vars

(***************************************************************************)
(* The airports endpoint: get_all_airports (api/airports.py, and the same  *)
(* code in api/index.py) over RyanairAPIClient.get_airports                *)
(***************************************************************************)
\* the rows of the airports table: with an IATA code and a municipality, with
\* an IATA code and no municipality, without an IATA code
Rows ==
    { [iata_code |-> <<"DUB">>, municipality |-> <<"Dublin">>],
      [iata_code |-> <<"STN">>, municipality |-> <<>>],
      [iata_code |-> <<>>, municipality |-> <<"Ballina">>] }

RECURSIVE TablesOf(_)
TablesOf(n) ==
    IF n = 0 THEN {<<>>}
    ELSE TablesOf(n - 1)
         \cup { Append(t, r) : t \in { x \in TablesOf(n - 1) : Len(x) = n - 1 },
                                r \in Rows }

\* what pd.read_csv meets: a URL it cannot read, a table without the iata_code
\* column, a table of rows
Csvs ==
    { [kind |-> "unreadable", rows |-> <<>>],
      [kind |-> "no_column", rows |-> <<>>] }
    \cup { [kind |-> "table", rows |-> t] : t \in TablesOf(MaxRows) }

\* get_airports, lines 236-261: the AirportInfo of every row with an IATA code
AirportInfos(rows) ==
    [i \in DOMAIN rows |->
        [iata_code |-> rows[i].iata_code[1],
         city_name |-> IF rows[i].municipality # <<>>
                       THEN rows[i].municipality[1] ELSE ""]]

\* RyanairAPIClient.get_airports: any exception is logged and answered with []
GetAirports(table) ==
    IF table.kind # "table"
    THEN <<>>
    ELSE AirportInfos(SelectSeq(table.rows, LAMBDA row : row.iata_code # <<>>))

\* get_all_airports, lines 26-37: the exception its try block raises, if any
NoAirports(found) ==
    IF found = <<>>
    THEN << [type |-> "HTTPException", status_code |-> 404,
             detail |-> "No airports could be fetched from Ryanair or its fallback."] >>
    ELSE <<>>

\* get_all_airports, lines 39-50: its except clauses, tried in order on an
\* exception raised in the try block
AirportsExcept(e) ==
    IF e.type = "RequestException"
    THEN [status_code |-> 503, detail |-> "Error connecting to Ryanair services: {req_ex}",
          cause |-> <<e>>, body |-> <<>>]
    ELSE [status_code |-> 500, detail |-> "An unexpected error occurred: {e}",
          cause |-> <<e>>, body |-> <<>>]

\* get_all_airports, lines 24-50
AirportsReply(found, e) ==
    IF e # <<>>
    THEN AirportsExcept(e[1])
    ELSE [status_code |-> 200, detail |-> "", cause |-> <<>>, body |-> found]

InitAirports ==
    /\ csv \in Csvs
    /\ airports = <<>>
    /\ reply = <<>>
    /\ request = Request("DUB", "BGY", BaseDate, <<>>, 0, TRUE)
    /\ upstream = [scn |-> 0, spot |-> <<>>]
    /\ directory = [kind |-> "client", list |-> <<>>]
    /\ NoClientCall
    /\ Begin([NewSearch(1, request) EXCEPT !.pc = "airports"])
    /\ waiting = <<>>
    /\ num_queries = 0

\* GET /airports
GetAllAirports ==
    /\ pc = "airports"
    /\ airports' = GetAirports(csv)
    /\ reply' = <<AirportsReply(GetAirports(csv), NoAirports(GetAirports(csv)))>>
    /\ pc' = "replied"
    /\ UNCHANGED <<ryanair_client, calls, instances, handed,
                   csv, task, waiting, request, upstream, directory, direct_flights,
                   connecting_flights, hub_airports, destinations, all_flights,
                   response, raised, caught, log, fetches, matches, num_queries>>

NextAirports == GetAllAirports

SpecAirports == InitAirports /\ [][NextAirports]_vars

(***************************************************************************)
(* api/index.py: get_ryanair_client, called by the threads that resolve    *)
(* the dependency of a request.  A step is what one thread does between    *)
(* two points where the interpreter may run another thread.                *)
(***************************************************************************)
InitClient ==
    /\ NoClientCall
    /\ NoAirportsCall
    /\ request = Request("DUB", "BGY", BaseDate, <<>>, 0, TRUE)
    /\ upstream = [scn |-> 0, spot |-> <<>>]
    /\ directory = [kind |-> "client", list |-> <<>>]
    /\ Begin([NewSearch(1, request) EXCEPT !.pc = "client"])
    /\ waiting = <<>>
    /\ num_queries = 0

Searching ==
    <<csv, airports, reply, task, waiting, request, upstream, directory, pc,
      direct_flights, connecting_flights, hub_airports, destinations,
      all_flights, response, raised, caught, log, fetches, matches, num_queries>>

\* a request arrives and its dependency is resolved: line 42
Call(c) ==
    /\ pc = "client"
    /\ calls[c].pc = "idle"
    /\ calls[c].started < MaxCalls
    /\ calls' = [calls EXCEPT ![c] = [pc |-> "test", started |-> @.started + 1,
                                      made |-> <<>>, got |-> <<>>, status |-> 0]]
    /\ UNCHANGED <<ryanair_client, instances, handed>>
    /\ UNCHANGED Searching

\* line 45: if _ryanair_client is None
TestNone(c) ==
    /\ calls[c].pc = "test"
    /\ calls' = [calls EXCEPT ![c].pc =
                     IF ryanair_client = <<>> THEN "construct" ELSE "return"]
    /\ UNCHANGED <<ryanair_client, instances, handed>>
    /\ UNCHANGED Searching

\* lines 48-50: RyanairAPIClient(currency=...) returns a new object
Construct(c) ==
    /\ calls[c].pc = "construct"
    /\ instances' = instances + 1
    /\ calls' = [calls EXCEPT ![c].pc = "assign", ![c].made = <<instances + 1>>]
    /\ UNCHANGED <<ryanair_client, handed>>
    /\ UNCHANGED Searching

\* lines 52-57: the constructor raised; the global is not assigned and the
\* caller gets HTTPException(500)
ConstructRaises(c) ==
    /\ calls[c].pc = "construct"
    /\ calls' = [calls EXCEPT ![c].pc = "idle", ![c].status = 500]
    /\ UNCHANGED <<ryanair_client, instances, handed>>
    /\ UNCHANGED Searching

\* line 48: the assignment to the global
Assign(c) ==
    /\ calls[c].pc = "assign"
    /\ ryanair_client' = calls[c].made
    /\ calls' = [calls EXCEPT ![c].pc = "return"]
    /\ UNCHANGED <<instances, handed>>
    /\ UNCHANGED Searching

\* line 58: return _ryanair_client
Return(c) ==
    /\ calls[c].pc = "return"
    /\ calls' = [calls EXCEPT ![c].pc = "idle", ![c].got = ryanair_client,
                              ![c].status = 200]
    /\ handed' = handed \cup Range(ryanair_client)
    /\ UNCHANGED <<ryanair_client, instances>>
    /\ UNCHANGED Searching

GetRyanairClient(c) ==
    \/ Call(c)
    \/ TestNone(c)
    \/ Construct(c)
    \/ ConstructRaises(c)
    \/ Assign(c)
    \/ Return(c)

NextClient == \E c \in Callers : GetRyanairClient(c)

SpecClient == InitClient /\ [][NextClient]_vars

(***************************************************************************)
(* Properties                                                              *)
(***************************************************************************)
AnyRequested == Upper(request.destination) = "ANY"

Returned == response[1]

LegStages == {"first_leg", "second_leg"}

C2_SortedByPrice ==
    response # <<>> =>
        \A i \in 1 .. (Len(Returned.flights) - 1) :
            Returned.flights[i].total_price <= Returned.flights[i + 1].total_price

Gathered == direct_flights \o connecting_flights

\* a response with connections whose itineraries were gathered out of price order
C2_Witness ==
    /\ pc = "done"
    /\ ~AnyRequested
    /\ connecting_flights # <<>>
    /\ Len(Returned.flights) = Len(Gathered)
    /\ \E i, j \in DOMAIN Gathered :
           i < j /\ Gathered[i].total_price > Gathered[j].total_price

\* C3: in every response the direct and the connecting count add up to the
\* number of itineraries in the returned list.
C3_CountsMatchList ==
    response # <<>> =>
        Returned.direct_flights_count + Returned.connecting_flights_count
            = Len(Returned.flights)

\* the gap of a pair of legs in seconds, and the pairs inside the layover
\* bounds, both inclusive
Gap(first_flight, second_flight) ==
    second_flight.departure_time.t - first_flight.arrival_time.t

ValidPairs(m) ==
    { pr \in (DOMAIN m.first) \X (DOMAIN m.second) :
        /\ m.first[pr[1]].arrival_time.tz = m.second[pr[2]].departure_time.tz
        /\ Gap(m.first[pr[1]], m.second[pr[2]]) >= 90 * 60
        /\ Gap(m.first[pr[1]], m.second[pr[2]]) <= 360 * 60 }

Pairs(first_flight, second_flight, option) ==
    /\ option.type = "one-stop"
    /\ Len(option.legs) = 2
    /\ option.legs[1].flight_number = first_flight.flight_number
    /\ option.legs[1].departure_datetime = first_flight.departure_time
    /\ option.legs[2].flight_number = second_flight.flight_number
    /\ option.legs[2].departure_datetime = second_flight.departure_time

\* C4: _match_flight_legs returns an itinerary for a pair of the cross product
\* exactly when the gap from the first leg's arrival to the second leg's
\* departure is at least 90 and at most 360 minutes, and it returns one
\* itinerary for each such pair.
C4_MatchIffLayoverInBounds ==
    \A k \in DOMAIN matches :
        /\ Len(matches[k].connections) = Cardinality(ValidPairs(matches[k]))
        /\ \A pr \in (DOMAIN matches[k].first) \X (DOMAIN matches[k].second) :
               pr \in ValidPairs(matches[k])
                   <=> \E c \in DOMAIN matches[k].connections :
                          Pairs(matches[k].first[pr[1]], matches[k].second[pr[2]],
                                matches[k].connections[c])

\* a matching that met gaps of 89, 90, 360 and 361 minutes and kept several
\* second legs for one first leg
C4_Witness ==
    \E k \in DOMAIN matches :
        /\ \A g \in {89 * 60, 90 * 60, 360 * 60, 361 * 60} :
               \E pr \in (DOMAIN matches[k].first) \X (DOMAIN matches[k].second) :
                   Gap(matches[k].first[pr[1]], matches[k].second[pr[2]]) = g
        /\ \E i \in DOMAIN matches[k].first :
               Cardinality({pr \in ValidPairs(matches[k]) : pr[1] = i}) > 1
        /\ Len(matches[k].connections) > 0

\* the dates of a leg fetch, and its one-day queries in the log
WindowOf(f) == (f.date - f.days) .. (f.date + f.days)

QueriesOf(f) ==
    { i \in DOMAIN log :
        /\ log[i].stage = f.stage
        /\ log[i].hub = f.hub
        /\ log[i].airport = f.origin
        /\ log[i].destination = f.destination
        /\ log[i].date \in WindowOf(f) }

Readable(fares) ==
    \A k \in DOMAIN fares : fares[k].dep # <<>> /\ fares[k].price.kind # "null"

\* the dates of the fetch whose query was answered with records that all parse
Succeeded(f) ==
    { d \in WindowOf(f) :
        /\ \E i \in QueriesOf(f) : log[i].date = d /\ log[i].http = "ok"
        /\ Readable(FaresOf(upstream.scn, f.origin, d)) }

\* the upstream records the fetch is to return: <<date, index>>
Expected(f) ==
    UNION { { <<d, k>> : k \in { n \in DOMAIN FaresOf(upstream.scn, f.origin, d) :
                                   FaresOf(upstream.scn, f.origin, d)[n].dest
                                       = f.destination } } :
            d \in Succeeded(f) }

ReturnedBy(f, d, rec) ==
    \E i \in DOMAIN f.flights :
        /\ f.flights[i].flight_number = rec.fn
        /\ f.flights[i].departure_time.t = d * Day + rec.dep[1]

\* the sort of the fetch raises on its own account: the records to return mix
\* timestamps with and without an offset
MixedOffsets(f) ==
    \E a, b \in Expected(f) :
        FaresOf(upstream.scn, f.origin, a[1])[a[2]].tz
            # FaresOf(upstream.scn, f.origin, b[1])[b[2]].tz

\* C5: in a leg fetch over a window of dates, a date whose upstream query
\* failed neither ends the fetch nor makes it raise: every date of the window
\* is queried, and the fetch returns exactly the flights of the dates whose
\* query succeeded.
C5_FailedDateSkipped ==
    \A n \in DOMAIN fetches :
      LET f == fetches[n] IN
        f.date - f.days >= 1 =>
            /\ \A d \in WindowOf(f) : \E i \in QueriesOf(f) : log[i].date = d
            /\ f.raised => MixedOffsets(f)
            /\ ~f.raised =>
                   /\ Len(f.flights) = Cardinality(Expected(f))
                   /\ \A e \in Expected(f) :
                          ReturnedBy(f, e[1],
                                     FaresOf(upstream.scn, f.origin, e[1])[e[2]])

\* a fetch over three dates, the query of one failed after its retries, that
\* returned the flights of the others
C5_Witness ==
    \E n \in DOMAIN fetches :
        /\ fetches[n].days >= 1
        /\ ~fetches[n].raised
        /\ \E i \in QueriesOf(fetches[n]) : log[i].http = "RyanairAPIError"
        /\ fetches[n].flights # <<>>

\* the connections of the search that go through `hub`
Through(hub) ==
    { i \in DOMAIN connecting_flights : connecting_flights[i].layovers[1].airport = hub }

FailedLegs == { n \in DOMAIN fetches : fetches[n].stage \in LegStages /\ fetches[n].raised }

\* C6 as stated: a hub one of whose leg fetches raised, the first leg's or the
\* second leg's, contributes no itinerary.
C6_FailedHubContributesNothing ==
    \A n \in FailedLegs : Through(fetches[n].hub) = {}

\* the second-leg flights of `hub` that went into the matching: those of the
\* dates whose fetch did not raise
SecondLegKept(hub) ==
    Concat([n \in DOMAIN fetches |->
               IF fetches[n].stage = "second_leg" /\ fetches[n].hub = hub
                  /\ ~fetches[n].raised
               THEN fetches[n].flights ELSE <<>>])

FirstLegHubs ==
    [n \in DOMAIN SelectSeq(fetches, LAMBDA f : f.stage = "first_leg") |->
        SelectSeq(fetches, LAMBDA f : f.stage = "first_leg")[n].hub]

\* C6: a hub whose first-leg fetch raised contributes no itinerary and is not
\* searched further; a second-leg fetch that raised for one date leaves out
\* the flights of that date only, the flights of the hub's other dates are
\* still matched; no failure of a leg reaches the except clause of
\* search_flights, the hubs after it are searched, and the connections
\* matched through any hub are in the response, whose error stays empty.
C6_HubFailureIsolated ==
    /\ \A n \in FailedLegs :
           /\ fetches[n].stage = "first_leg" =>
                  /\ Through(fetches[n].hub) = {}
                  /\ \A m \in DOMAIN fetches :
                         fetches[m].stage = "second_leg" => fetches[m].hub # fetches[n].hub
           /\ fetches[n].stage = "second_leg" =>
                  \A i \in Through(fetches[n].hub) :
                      connecting_flights[i].legs[2].departure_datetime.t \div Day
                          # fetches[n].date
           /\ caught = <<>>
    /\ \A n \in DOMAIN fetches :
           (fetches[n].stage = "first_leg" /\ ~fetches[n].raised
            /\ fetches[n].flights # <<>> /\ SecondLegKept(fetches[n].hub) # <<>>)
               => \E k \in DOMAIN matches :
                      /\ matches[k].hub = fetches[n].hub
                      /\ matches[k].first = fetches[n].flights
    /\ \A k \in DOMAIN matches :
           /\ matches[k].second = SecondLegKept(matches[k].hub)
           /\ \A c \in DOMAIN matches[k].connections :
                  \E i \in Through(matches[k].hub) :
                      connecting_flights[i] = matches[k].connections[c]
    /\ (pc = "done" /\ ~AnyRequested /\ caught = <<>>) =>
           /\ Returned.error = <<>>
           /\ request.max_connections > 0 =>
                  FirstLegHubs = GetPotentialHubs(request.origin, request.destination)
           /\ \A i \in DOMAIN connecting_flights :
                  \E j \in DOMAIN Returned.flights :
                      Returned.flights[j] = connecting_flights[i]

\* a finished search in which one hub's first leg raised, another hub's second
\* leg raised for one date and still gave connections, and a hub visited after
\* both gave connections that are in the response
C6_Witness ==
    /\ pc = "done"
    /\ caught = <<>>
    /\ \E n \in FailedLegs : fetches[n].stage = "first_leg"
    /\ \E n \in FailedLegs :
           /\ fetches[n].stage = "second_leg"
           /\ Through(fetches[n].hub) # {}
           /\ \E m \in DOMAIN fetches :
                  /\ m > n
                  /\ fetches[m].hub # fetches[n].hub
                  /\ Through(fetches[m].hub) # {}
    /\ Returned.connecting_flights_count > 0

\* C7: a one-day query whose HTTP request still fails at the last attempt of
\* its retries ends in an error its caller can see: it does not return a list,
\* let alone the empty list of a day without flights.
C7_FailureDistinguishable ==
    \A i \in DOMAIN log :
        (log[i].http = "RyanairAPIError" /\ log[i].attempts = max_retries) =>
            /\ log[i].raised
            /\ ~(log[i].returned = 0 /\ ~log[i].raised)

LegFetches == { n \in DOMAIN fetches : fetches[n].stage \in LegStages }

\* C8 as stated: the hubs are searched if and only if max_connections is 1 and
\* the destination is not "ANY".
C8_ConnectionIffEnabled ==
    pc = "done" =>
        (LegFetches # {} <=> (request.max_connections = 1 /\ ~AnyRequested))

\* C8: the search goes from the direct search through the hubs to the merge
\* and ends; the hubs are searched if and only if max_connections is 1, the
\* destination is not "ANY" and the direct search did not raise.  No leg of a
\* hub is fetched with max_connections 0, and the connecting count is then 0;
\* otherwise each candidate hub is visited once, in the order of the list,
\* after the direct fetch and before there is a response.
C8_StagesInOrder ==
    /\ pc = "start" => fetches = <<>> /\ response = <<>>
    /\ pc \in {"connection", "merge", "any"} => response = <<>> /\ caught = <<>>
    /\ pc \in {"connection", "merge"} =>
           /\ ~AnyRequested
           /\ fetches # <<>>
           /\ fetches[1].stage = "direct"
           /\ ~fetches[1].raised
    /\ \A n \in LegFetches :
           /\ n > 1
           /\ fetches[1].stage = "direct"
           /\ ~fetches[1].raised
           /\ request.max_connections = 1
           /\ ~AnyRequested
    /\ \A n \in DOMAIN fetches : fetches[n].stage = "direct" => n = 1
    /\ request.max_connections = 0 =>
           /\ LegFetches = {}
           /\ pc # "connection"
           /\ response # <<>> => Returned.connecting_flights_count = 0
    /\ (pc = "connection" /\ request.max_connections = 1) =>
           FirstLegHubs \o hub_airports
               = GetPotentialHubs(request.origin, request.destination)
    /\ (pc \in {"merge", "done"} /\ ~AnyRequested /\ request.max_connections = 1
        /\ caught = <<>>) =>
           FirstLegHubs = GetPotentialHubs(request.origin, request.destination)
    /\ (pc = "done" /\ ~AnyRequested /\ caught # <<>>) =>
           /\ Len(fetches) = 1
           /\ fetches[1].raised

\* a finished search with max_connections 1 that visited every candidate hub
\* and returned connections
C8_Witness ==
    /\ pc = "done"
    /\ request.max_connections = 1
    /\ ~AnyRequested
    /\ Len(FirstLegHubs) >= 11
    /\ Returned.connecting_flights_count > 0
    /\ Returned.direct_flights_count > 0

\* C9: a search to "ANY" fetches no leg of a hub and matches no connection,
\* whatever max_connections is: all it fetches are the direct flights to the
\* destinations of the directory, every itinerary it returns is direct with
\* one leg, and its connecting count is 0.
C9_AnyNeverConnects ==
    AnyRequested =>
        /\ \A n \in DOMAIN fetches : fetches[n].stage = "any"
        /\ \A i \in DOMAIN log : log[i].stage = "any"
        /\ matches = <<>>
        /\ connecting_flights = <<>>
        /\ hub_airports = <<>>
        /\ response # <<>> =>
               /\ Returned.connecting_flights_count = 0
               /\ \A i \in DOMAIN Returned.flights :
                      /\ Returned.flights[i].type = "direct"
                      /\ Len(Returned.flights[i].legs) = 1
                      /\ Returned.flights[i].layovers = <<>>

\* a search to "any", spelled in lower case, with max_connections 1 that
\* returned itineraries
C9_Witness ==
    /\ pc = "done"
    /\ request.destination = "any"
    /\ request.max_connections = 1
    /\ Returned.flights # <<>>

\* the first 50 destinations of the directory's list
FirstDestinations ==
    { DirectoryAnswer(directory, request.origin)[k].code :
        k \in { n \in DOMAIN DirectoryAnswer(directory, request.origin) :
                  n <= 50 } }

Cheaper(price) ==
    Cardinality({ j \in DOMAIN all_flights : all_flights[j].total_price < price })

NotDearer(price) ==
    Cardinality({ j \in DOMAIN all_flights : all_flights[j].total_price <= price })

\* C10: a search to "ANY" searches no more than 50 destinations, each among
\* the first 50 of the directory's list, and returns no more than 100
\* itineraries: the 100 cheapest of all it found, in ascending order of price
\* (all of them when it found fewer).
C10_AnyCapped ==
    AnyRequested =>
        /\ Len(fetches) <= 50
        /\ \A n \in DOMAIN fetches : fetches[n].destination \in FirstDestinations
        /\ (pc = "done" /\ caught = <<>>) =>
               /\ Len(Returned.flights) <= 100
               /\ Len(Returned.flights) =
                      IF Len(all_flights) < 100 THEN Len(all_flights) ELSE 100
               /\ \A i \in DOMAIN Returned.flights :
                      /\ \E j \in DOMAIN all_flights :
                             all_flights[j] = Returned.flights[i]
                      /\ Cheaper(Returned.flights[i].total_price) <= i - 1
                      /\ NotDearer(Returned.flights[i].total_price) >= i

\* a search to "ANY" over a directory of more than 50 destinations that found
\* more than 100 itineraries, not in price order, and returned 100
C10_Witness ==
    /\ pc = "done"
    /\ AnyRequested
    /\ Len(DirectoryAnswer(directory, request.origin)) > 50
    /\ Len(fetches) = 50
    /\ Len(all_flights) > 100
    /\ Len(Returned.flights) = 100
    /\ \E i, j \in DOMAIN all_flights :
           i < j /\ j <= 100 /\ all_flights[i].total_price > all_flights[j].total_price

\* the dates the request asks for, and the records <<date, index>> the fare
\* source holds for flights leaving the request's origin on them
AskedDates ==
    (request.departure_date - FlexibilityDays(request))
        .. (request.departure_date + FlexibilityDays(request))

Offered ==
    UNION { { <<d, k>> : k \in DOMAIN FaresOf(upstream.scn, request.origin, d) } :
            d \in AskedDates }

ItineraryOf(option, d, rec) ==
    /\ option.type = "direct"
    /\ Len(option.legs) = 1
    /\ option.legs[1].flight_number = rec.fn
    /\ option.legs[1].destination_airport = rec.dest
    /\ option.legs[1].departure_datetime.t = d * Day + rec.dep[1]

\* C11: a finished search to "ANY" through the client of this repository,
\* against a fare source that answers every query with well-formed records,
\* returns exactly one direct itinerary for each flight to each destination
\* reachable from the origin on the dates asked (three itineraries for three
\* destinations with one flight each), with a connecting count of 0 and in
\* ascending order of price.
C11_AnyReturnsEveryDirectFlight ==
    (/\ pc = "done"
     /\ AnyRequested
     /\ directory.kind = "client"
     /\ upstream.spot = <<>>
     /\ \A d \in AskedDates : Readable(FaresOf(upstream.scn, request.origin, d))
     /\ Cardinality(Offered) <= MaxResults) =>
        /\ Len(Returned.flights) = Cardinality(Offered)
        /\ \A e \in Offered :
               \E i \in DOMAIN Returned.flights :
                   ItineraryOf(Returned.flights[i], e[1],
                               FaresOf(upstream.scn, request.origin, e[1])[e[2]])
        /\ Returned.connecting_flights_count = 0
        /\ \A i \in 1 .. (Len(Returned.flights) - 1) :
               Returned.flights[i].total_price <= Returned.flights[i + 1].total_price

\* the one-day queries made for a fetch, in the order they were made; the
\* fetches that asked the same as fetch f
QueriesFor(f) ==
    SelectSeq(log, LAMBDA q : /\ q.stage = f.stage
                              /\ q.hub = f.hub
                              /\ q.airport = f.origin
                              /\ q.destination = f.destination
                              /\ q.date \in WindowOf(f))

SameAs(f) ==
    { m \in DOMAIN fetches :
        /\ fetches[m].stage = f.stage
        /\ fetches[m].hub = f.hub
        /\ fetches[m].origin = f.origin
        /\ fetches[m].destination = f.destination
        /\ fetches[m].date = f.date
        /\ fetches[m].days = f.days }

\* the queries `queries` are `times` passes over the window of fetch f, each
\* in ascending order of date
PassesOver(f, queries, times) ==
    /\ Len(queries) = times * (2 * f.days + 1)
    /\ \A k \in DOMAIN queries :
           queries[k].date = f.date - f.days + ((k - 1) % (2 * f.days + 1))

Typed(type) ==
    Cardinality({ i \in DOMAIN Returned.flights : Returned.flights[i].type = type })

WellShaped(option) ==
    \/ /\ option.type = "direct"
       /\ Len(option.legs) = 1
       /\ option.layovers = <<>>
    \/ /\ option.type = "one-stop"
       /\ Len(option.legs) = 2
       /\ option.legs[1].segment_index = 0
       /\ option.legs[2].segment_index = 1
       /\ Len(option.layovers) = 1

\* C13: every itinerary of a response is either "direct" with one leg and no
\* layover or "one-stop" with two legs, of segment index 0 then 1, and one
\* layover; the response's direct count is the number of its "direct"
\* itineraries and its connecting count the number of its "one-stop" ones.
C13_ShapesAndCounts ==
    response # <<>> =>
        /\ \A i \in DOMAIN Returned.flights : WellShaped(Returned.flights[i])
        /\ Returned.direct_flights_count = Typed("direct")
        /\ Returned.connecting_flights_count = Typed("one-stop")

RECURSIVE SumPrices(_)
SumPrices(legs) ==
    IF legs = <<>> THEN 0 ELSE Head(legs).price + SumPrices(Tail(legs))

\* the records without a price (no price key, or a null amount) that the fare
\* source holds for fetch f on the dates whose query it answered, all records
\* of the day carrying their departure time: <<date, index>>
Priceless(f) ==
    UNION { { <<d, k>> : k \in { n \in DOMAIN FaresOf(upstream.scn, f.origin, d) :
                /\ FaresOf(upstream.scn, f.origin, d)[n].dest = f.destination
                /\ FaresOf(upstream.scn, f.origin, d)[n].price.kind # "value" } } :
            d \in { x \in WindowOf(f) :
                      /\ \E i \in QueriesOf(f) : log[i].date = x /\ log[i].http = "ok"
                      /\ \A n \in DOMAIN FaresOf(upstream.scn, f.origin, x) :
                             FaresOf(upstream.scn, f.origin, x)[n].dep # <<>> } }

ReturnedFree(f, d, rec) ==
    \E i \in DOMAIN f.flights :
        /\ f.flights[i].flight_number = rec.fn
        /\ f.flights[i].departure_time.t = d * Day + rec.dep[1]
        /\ FareAmount(f.flights[i]) = 0

\* C14: the total price of an itinerary is the sum of its legs' prices, a leg
\* whose upstream record has no price (no price at all, or a null amount)
\* counting as 0; such a record is not dropped and does not end the search:
\* the fetch returns its flight, priced 0, the flight is a direct itinerary of
\* the response when it was fetched as one, and it is matched into
\* connections when it was fetched as a first leg.
C14_PricelessLegCountsZero ==
    /\ response # <<>> =>
           \A i \in DOMAIN Returned.flights :
               Returned.flights[i].total_price = SumPrices(Returned.flights[i].legs)
    /\ \A n \in DOMAIN fetches :
           (fetches[n].date - fetches[n].days >= 1 /\ ~fetches[n].raised) =>
               \A e \in Priceless(fetches[n]) :
                   /\ ReturnedFree(fetches[n], e[1],
                          FaresOf(upstream.scn, fetches[n].origin, e[1])[e[2]])
                   /\ (fetches[n].stage = "direct" /\ pc = "done" /\ caught = <<>>) =>
                          \E i \in DOMAIN Returned.flights :
                              /\ Returned.flights[i].total_price = 0
                              /\ ItineraryOf(Returned.flights[i], e[1],
                                     FaresOf(upstream.scn, fetches[n].origin, e[1])[e[2]])

\* a record the parser reads: it has its departure time and no null amount
WellFormed(rec) == rec.dep # <<>> /\ rec.price.kind # "null"

\* the dates of fetch f whose query the fare source answered
Answered(f) ==
    { d \in WindowOf(f) : \E i \in QueriesOf(f) : log[i].date = d /\ log[i].http = "ok" }

\* C15: a record that lacks a required field is left out alone: every
\* well-formed record for the fetch's destination in an answer of the fare
\* source is returned by the fetch, whatever else the same answer holds, and
\* the flights a fetch returns all come from well-formed records.
C15_MalformedSkippedAlone ==
    \A n \in DOMAIN fetches :
        (fetches[n].date - fetches[n].days >= 1 /\ ~fetches[n].raised) =>
            /\ \A d \in Answered(fetches[n]) :
                   \A k \in DOMAIN FaresOf(upstream.scn, fetches[n].origin, d) :
                       (/\ FaresOf(upstream.scn, fetches[n].origin, d)[k].dest
                               = fetches[n].destination
                        /\ WellFormed(FaresOf(upstream.scn, fetches[n].origin, d)[k]))
                           => ReturnedBy(fetches[n], d,
                                  FaresOf(upstream.scn, fetches[n].origin, d)[k])
            /\ \A i \in DOMAIN fetches[n].flights :
                   \E d \in Answered(fetches[n]) :
                       \E k \in DOMAIN FaresOf(upstream.scn, fetches[n].origin, d) :
                           /\ WellFormed(FaresOf(upstream.scn, fetches[n].origin, d)[k])
                           /\ fetches[n].flights[i].flight_number
                                  = FaresOf(upstream.scn, fetches[n].origin, d)[k].fn

\* the upstream records fetch f is to return when the destination is read
\* without regard to letter case: <<date, index>>
ExpectedInAnyCase(f) ==
    UNION { { <<d, k>> : k \in { n \in DOMAIN FaresOf(upstream.scn, f.origin, d) :
                                   FaresOf(upstream.scn, f.origin, d)[n].dest
                                       = Upper(f.destination) } } :
            d \in Succeeded(f) }

\* C16: origin and destination are read without regard to letter case, so a
\* request in lower case is served as the same request in upper case: "any"
\* in any case takes the any-destination path, the origin and the destination
\* are not among the hubs searched however they are spelled, and a fetch
\* returns the upstream flights to its destination however the destination is
\* spelled.
C16_CaseInsensitive ==
    /\ AnyRequested =>
           /\ pc \notin {"connection", "merge"}
           /\ \A n \in DOMAIN fetches : fetches[n].stage = "any"
    /\ \A n \in DOMAIN fetches :
           fetches[n].stage = "first_leg" =>
               fetches[n].hub \notin {Upper(request.origin), Upper(request.destination)}
    /\ \A i \in DOMAIN hub_airports :
           hub_airports[i] \notin {Upper(request.origin), Upper(request.destination)}
    /\ \A n \in DOMAIN fetches :
           (fetches[n].date - fetches[n].days >= 1 /\ ~fetches[n].raised) =>
               /\ Len(fetches[n].flights) = Cardinality(ExpectedInAnyCase(fetches[n]))
               /\ \A e \in ExpectedInAnyCase(fetches[n]) :
                      ReturnedBy(fetches[n], e[1],
                                 FaresOf(upstream.scn, fetches[n].origin, e[1])[e[2]])

\* C17: a request with include_connections false gets no connection search,
\* whatever its max_connections: no leg of a hub is fetched, no itinerary of
\* the response is "one-stop" and the connecting count is 0.
C17_ConnectionsExcluded ==
    ~request.include_connections =>
        /\ LegFetches = {}
        /\ pc # "connection"
        /\ connecting_flights = <<>>
        /\ response # <<>> =>
               /\ Returned.connecting_flights_count = 0
               /\ \A i \in DOMAIN Returned.flights :
                      Returned.flights[i].type # "one-stop"

\* what a search returns when no other call runs beside it: the stages of
\* search_flights one after the other
RECURSIVE ConnectionsOver(_, _, _)
ConnectionsOver(w, req, hubs) ==
    IF hubs = <<>> THEN <<>>
    ELSE FindConnectionsViaHub(w, req, Head(hubs)).connections
             \o ConnectionsOver(w, req, Tail(hubs))

KeptOptions(found) == IF found.raised THEN <<>> ELSE found.options

RECURSIVE FoundOver(_, _, _)
FoundOver(w, req, dests) ==
    IF dests = <<>> THEN <<>>
    ELSE (IF Head(dests).str
          THEN KeptOptions(SearchDirectFlights(w,
                               DestinationRequest(req, Head(dests).code)))
          ELSE <<>>)
             \o FoundOver(w, req, Tail(dests))

AloneBetween(w, req, found) ==
    IF found.raised
    THEN SearchFailed(req, found.error).response
    ELSE << CombinedResponse(req, found.options,
               IF ConnectionSearchEnabled(req)
               THEN ConnectionsOver(w, req,
                        GetPotentialHubs(req.origin, req.destination))
               ELSE <<>>) >>

Alone(w, dir, req) ==
    IF IsAnyDestination(req)
    THEN IF dir.kind = "raises"
         THEN SearchFailed(req, "directory unavailable").response
         ELSE << AnyDestinationResponse(req,
                    FoundOver(w, req,
                        CappedDestinations(DirectoryAnswer(dir, req.origin)))) >>
    ELSE AloneBetween(w, req, SearchDirectFlights(w, req))

C19_SearchesIsolated ==
    /\ pc = "done" => response = Alone(upstream, directory, request)
    /\ ~raised
    /\ \A i \in DOMAIN waiting :
           /\ waiting[i].pc = "done" =>
                  waiting[i].response = Alone(upstream, directory, waiting[i].request)
           /\ ~waiting[i].raised
           /\ num_queries = SumAttempts(log) + SumAttempts(waiting[i].log)

\* a search that finished with connections while another search, with another
\* request, was suspended in the middle of its hubs with connections found
C19_Witness ==
    /\ waiting # <<>>
    /\ pc = "done"
    /\ Returned.connecting_flights_count > 0
    /\ waiting[1].request # request
    /\ waiting[1].pc = "connection"
    /\ waiting[1].connecting_flights # <<>>
    /\ waiting[1].hub_airports # <<>>

\* C20: when the airport directory answers with an empty list (the CSV could
\* not be loaded, or holds no airport), get_all_airports replies 404 with the
\* detail "No airports could be fetched from Ryanair or its fallback."; it
\* replies 500 for an unexpected exception only, never for the empty list.
C20_EmptyDirectoryIs404 ==
    reply # <<>> =>
        /\ airports = <<>> =>
               /\ reply[1].status_code = 404
               /\ reply[1].detail
                      = "No airports could be fetched from Ryanair or its fallback."
        /\ reply[1].status_code = 500 => airports # <<>>
        /\ airports # <<>> =>
               /\ reply[1].status_code = 200
               /\ reply[1].body = airports

\* the hubs of the search in the order _get_potential_hubs gave them: those
\* visited, then those still to visit
HubList == FirstLegHubs \o hub_airports

\* where a hub stands in the curated list
PlaceOf(hub) == CHOOSE k \in DOMAIN major_hubs : major_hubs[k] = hub

\* C21: the hub list of a search is the curated list of 13 airports without
\* the request's origin and destination: it holds every other airport of the
\* list once, in the order of the list, and neither the origin nor the
\* destination.
C21_HubsAreCuratedList ==
    /\ Len(major_hubs) = 13
    /\ Cardinality(Range(major_hubs)) = 13
    /\ (pc \in {"connection", "merge"} /\ request.max_connections = 1) =>
           /\ Range(HubList)
                  = Range(major_hubs) \ {request.origin, request.destination}
           /\ Len(HubList) = Cardinality(Range(HubList))
           /\ \A i, j \in DOMAIN HubList :
                  i < j => PlaceOf(HubList[i]) < PlaceOf(HubList[j])
           /\ request.origin \notin Range(HubList)
           /\ request.destination \notin Range(HubList)

\* a search from and to airports of the curated list that is through with its
\* eleven hubs
C21_Witness ==
    /\ pc = "merge"
    /\ request.max_connections = 1
    /\ request.origin \in Range(major_hubs)
    /\ request.destination \in Range(major_hubs)
    /\ Len(FirstLegHubs) = 11
    /\ hub_airports = <<>>

\* the dates the log holds a query for, made in `stage` of `hub`
DatesQueried(stage, hub) ==
    { log[i].date : i \in { j \in DOMAIN log :
                             log[j].stage = stage /\ log[j].hub = hub } }

\* how many queries the log holds of the second leg of `hub`
SecondLegQueries(hub) ==
    Cardinality({ i \in DOMAIN log :
                    log[i].stage = "second_leg" /\ log[i].hub = hub })

\* C22: behind the first leg of a hub that returned flights, the second leg is
\* fetched from the hub to the request's destination by one fetch of
\* flexibility 0, and so one one-day query, for each date of
\* departure_date-N .. departure_date+N in ascending order: the dates queried
\* for the first leg, whatever the first leg's flights are.  A fetch that
\* raised for one date is followed by the fetches of the remaining dates.
C22_SecondLegPerDate ==
    \A n \in DOMAIN fetches :
      LET f == fetches[n] IN
        (f.stage = "first_leg" /\ ~f.raised /\ f.flights # <<>>) =>
            /\ f.date = request.departure_date
            /\ f.days = FlexibilityDays(request)
            /\ \A k \in 1 .. (2 * f.days + 1) :
                   /\ n + k \in DOMAIN fetches
                   /\ fetches[n + k].stage = "second_leg"
                   /\ fetches[n + k].hub = f.hub
                   /\ fetches[n + k].origin = f.hub
                   /\ fetches[n + k].destination = request.destination
                   /\ fetches[n + k].date = f.date - f.days + (k - 1)
                   /\ fetches[n + k].days = 0
            /\ (n + 2 * f.days + 2) \in DOMAIN fetches =>
                   fetches[n + 2 * f.days + 2].stage # "second_leg"
            /\ DatesQueried("second_leg", f.hub) = WindowOf(f)
            /\ DatesQueried("first_leg", f.hub) = WindowOf(f)
            /\ SecondLegQueries(f.hub) = 2 * f.days + 1

\* a hub whose second-leg fetch raised for one date of a window of three and
\* was followed by the fetch of the next date, which returned flights
C22_Witness ==
    \E n \in DOMAIN fetches :
        /\ fetches[n].stage = "second_leg"
        /\ fetches[n].raised
        /\ FlexibilityDays(request) >= 1
        /\ n + 1 \in DOMAIN fetches
        /\ fetches[n + 1].stage = "second_leg"
        /\ fetches[n + 1].hub = fetches[n].hub
        /\ fetches[n + 1].date = fetches[n].date + 1
        /\ fetches[n + 1].flights # <<>>

\* the one-stop itineraries of the search: those gathered, and those of the
\* response
OneStops ==
    { connecting_flights[i] : i \in DOMAIN connecting_flights }
        \cup (IF response = <<>> THEN {}
              ELSE { Returned.flights[i] :
                       i \in { j \in DOMAIN Returned.flights :
                                 Returned.flights[j].type = "one-stop" } })

\* the whole minutes of a gap of `seconds`, for a gap that is not negative
WholeMinutes(seconds) == (seconds - (seconds % 60)) \div 60

\* the itinerary pairs two flights matched through `hub`, and its layover is
\* the whole minutes of their gap
LayoverOf(option, hub) ==
    \E k \in DOMAIN matches :
        /\ matches[k].hub = hub
        /\ \E i \in DOMAIN matches[k].first, j \in DOMAIN matches[k].second :
               /\ Pairs(matches[k].first[i], matches[k].second[j], option)
               /\ option.legs[1].arrival_datetime = matches[k].first[i].arrival_time
               /\ Gap(matches[k].first[i], matches[k].second[j]) >= 0
               /\ option.layovers[1].duration_minutes
                      = WholeMinutes(Gap(matches[k].first[i], matches[k].second[j]))

\* C23: every one-stop itinerary has one layover; its duration_minutes is at
\* least 90 and at most 360, its airport is the hub through which the two
\* legs were searched and matched, and its duration is the gap from the first
\* leg's arrival to the second leg's departure cut down to whole minutes.  A
\* pair 60 minutes apart makes no itinerary.
C23_LayoverWithinBounds ==
    /\ \A option \in OneStops :
           /\ Len(option.layovers) = 1
           /\ option.layovers[1].duration_minutes >= MIN_LAYOVER_MINUTES
           /\ option.layovers[1].duration_minutes <= MAX_LAYOVER_MINUTES
           /\ LayoverOf(option, option.layovers[1].airport)
    /\ \A k \in DOMAIN matches :
           \A i \in DOMAIN matches[k].first, j \in DOMAIN matches[k].second :
               Gap(matches[k].first[i], matches[k].second[j]) = 60 * 60 =>
                   \A c \in DOMAIN matches[k].connections :
                       ~Pairs(matches[k].first[i], matches[k].second[j],
                              matches[k].connections[c])

\* a response with a layover of 120 minutes, one of 90 minutes made of a gap
\* of 90 minutes and some seconds, and a matching that met a gap of 60 minutes
C23_Witness ==
    /\ pc = "done"
    /\ response # <<>>
    /\ \E option \in OneStops : option.layovers[1].duration_minutes = 120
    /\ \E k \in DOMAIN matches :
           /\ \E i \in DOMAIN matches[k].first, j \in DOMAIN matches[k].second :
                  /\ Gap(matches[k].first[i], matches[k].second[j]) > 90 * 60
                  /\ Gap(matches[k].first[i], matches[k].second[j]) < 91 * 60
                  /\ \E c \in DOMAIN matches[k].connections :
                         /\ Pairs(matches[k].first[i], matches[k].second[j],
                                  matches[k].connections[c])
                         /\ matches[k].connections[c].layovers[1].duration_minutes = 90
           /\ \E i \in DOMAIN matches[k].first, j \in DOMAIN matches[k].second :
                  Gap(matches[k].first[i], matches[k].second[j]) = 60 * 60

\* a leg whose two times and duration agree
TimesAgree(departure, arrival, duration) ==
    /\ arrival.tz = departure.tz
    /\ arrival.t >= departure.t
    /\ duration >= 0
    /\ 60 * duration = arrival.t - departure.t

\* the upstream records of fetch f on date d
RecordsOn(f, d) == FaresOf(upstream.scn, f.origin, d)

\* C24: every flight a fetch returns, and every leg of a response, arrives no
\* earlier than it departs and has a duration_minutes that is not negative
\* and equals the minutes from its departure to its arrival, whether or not
\* the upstream record carried an arrival time or a duration; a record
\* without a departure time becomes no flight.
C24_LegTimesConsistent ==
    /\ \A n \in DOMAIN fetches :
         LET f == fetches[n] IN
           /\ \A i \in DOMAIN f.flights :
                  /\ f.flights[i].duration_minutes # <<>>
                  /\ TimesAgree(f.flights[i].departure_time, f.flights[i].arrival_time,
                                f.flights[i].duration_minutes[1])
           /\ f.date - f.days >= 1 =>
                  \A d \in WindowOf(f) : \A k \in DOMAIN RecordsOn(f, d) :
                      RecordsOn(f, d)[k].dep = <<>> =>
                          ~\E i \in DOMAIN f.flights :
                              /\ f.flights[i].flight_number = RecordsOn(f, d)[k].fn
                              /\ f.flights[i].departure_time.t \div Day = d
    /\ response # <<>> =>
           \A o \in DOMAIN Returned.flights : \A l \in DOMAIN Returned.flights[o].legs :
               TimesAgree(Returned.flights[o].legs[l].departure_datetime,
                          Returned.flights[o].legs[l].arrival_datetime,
                          Returned.flights[o].legs[l].duration_minutes)

\* the fetch returned a flight made of a record with the given supplies
Supplied(f, arrival, duration) ==
    \E d \in WindowOf(f) : \E k \in DOMAIN RecordsOn(f, d) :
        /\ RecordsOn(f, d)[k].dep # <<>>
        /\ RecordsOn(f, d)[k].dest = f.destination
        /\ (RecordsOn(f, d)[k].arr # <<>>) = arrival
        /\ (RecordsOn(f, d)[k].dur # <<>>) = duration
        /\ arrival => RecordsOn(f, d)[k].arr[1] # RecordsOn(f, d)[k].dep[1] + 60 * DefaultDuration
        /\ ReturnedBy(f, d, RecordsOn(f, d)[k])

\* a finished search that returned a flight of a record with an arrival time
\* before its departure, one of a record with an arrival time and a duration,
\* one of a record with neither, and that met a record without departure time
C24_Witness ==
    /\ pc = "done"
    /\ response # <<>>
    /\ Returned.flights # <<>>
    /\ \E n \in DOMAIN fetches : Supplied(fetches[n], TRUE, FALSE)
    /\ \E n \in DOMAIN fetches : Supplied(fetches[n], TRUE, TRUE)
    /\ \E n \in DOMAIN fetches : Supplied(fetches[n], FALSE, FALSE)
    /\ \E n \in DOMAIN fetches :
           /\ fetches[n].flights # <<>>
           /\ \E d \in WindowOf(fetches[n]) : \E k \in DOMAIN RecordsOn(fetches[n], d) :
                  /\ RecordsOn(fetches[n], d)[k].dep = <<>>
                  /\ RecordsOn(fetches[n], d)[k].dest = fetches[n].destination

\* how the k-th HTTP attempt of a call at the place of log entry q ends
OutcomeAt(q, k) ==
    IF k <= Len(NetOf(upstream, q.airport, q.date))
    THEN NetOf(upstream, q.airport, q.date)[k]
    ELSE "ok"

\* how many attempts the log holds
RECURSIVE AttemptsIn(_)
AttemptsIn(entries) ==
    IF entries = <<>> THEN 0
    ELSE Head(entries).attempts + AttemptsIn(Tail(entries))

\* C25: a call of _make_api_request makes at least one and at most three
\* HTTP attempts.  Every attempt before its last ended in a request-level
\* failure; the last one succeeded, and the call returned its body, or ended
\* in another exception, and the call raised RyanairAPIError at once, or was
\* the third request-level failure in a row, and the call raised
\* RyanairAPIError.  The call ends in a body or in RyanairAPIError, never
\* without either, and the query counter has risen by one for every attempt.
C25_AtMostThreeAttempts ==
    /\ \A i \in DOMAIN log :
           /\ log[i].attempts \in 1 .. 3
           /\ \A k \in 1 .. (log[i].attempts - 1) :
                  OutcomeAt(log[i], k) = "request_exception"
           /\ log[i].http \in {"ok", "RyanairAPIError"}
           /\ log[i].http = "ok" <=> OutcomeAt(log[i], log[i].attempts) = "ok"
           /\ (log[i].http = "RyanairAPIError"
               /\ OutcomeAt(log[i], log[i].attempts) = "request_exception")
                  => log[i].attempts = 3
    /\ num_queries = AttemptsIn(log)

\* a search one of whose calls succeeded at its third attempt, beside calls
\* that succeeded at their first
C25_Witness ==
    /\ pc = "done"
    /\ \E i \in DOMAIN log : log[i].attempts = 3 /\ log[i].http = "ok"
    /\ \E i \in DOMAIN log : log[i].attempts = 1 /\ log[i].http = "ok"
    /\ num_queries > Len(log)

\* the direct fetch of the search raised
DirectRaised ==
    /\ fetches # <<>>
    /\ fetches[1].stage = "direct"
    /\ fetches[1].raised

\* C26: once the direct fetch has raised, the search is over: its response is
\* the error response (no itinerary, counts of 0, an error message), and no
\* leg of a hub is fetched or queried and no connection is made, with
\* max_connections 1 as with 0.
C26_DirectFailureEndsSearch ==
    DirectRaised =>
        /\ pc = "done"
        /\ Len(response) = 1
        /\ Returned.flights = <<>>
        /\ Returned.total_results = 0
        /\ Returned.direct_flights_count = 0
        /\ Returned.connecting_flights_count = 0
        /\ Returned.error # <<>>
        /\ \A n \in DOMAIN fetches : fetches[n].stage = "direct"
        /\ \A i \in DOMAIN log : log[i].stage = "direct"
        /\ connecting_flights = <<>>
        /\ matches = <<>>
        /\ hub_airports = <<>>

\* a search with max_connections 1 whose direct fetch queried its three dates
\* and then raised, while a hub had flights to the destination
C26_Witness ==
    /\ DirectRaised
    /\ request.max_connections = 1
    /\ Len(log) = 3
    /\ \E i \in DOMAIN log : log[i].returned > 0
    /\ GetPotentialHubs(request.origin, request.destination) # <<>>
    /\ \E d \in AskedDates :
           \E k \in DOMAIN FaresOf(upstream.scn, "STN", d) :
               FaresOf(upstream.scn, "STN", d)[k].dest = request.destination

\* a one-stop itinerary that is a route of the request through its hub
RouteThroughHub(option) ==
    /\ Len(option.legs) = 2
    /\ Len(option.layovers) = 1
    /\ option.legs[1].origin_airport = request.origin
    /\ option.legs[1].destination_airport = option.layovers[1].airport
    /\ option.legs[2].origin_airport = option.layovers[1].airport
    /\ option.legs[2].destination_airport = request.destination
    /\ option.layovers[1].airport \in Range(major_hubs)
    /\ option.layovers[1].airport # request.origin
    /\ option.layovers[1].airport # request.destination
    /\ Upper(option.layovers[1].airport) # Upper(request.origin)
    /\ Upper(option.layovers[1].airport) # Upper(request.destination)

\* the itineraries of the response of the given type
ReturnedOf(type) ==
    { Returned.flights[i] :
        i \in { j \in DOMAIN Returned.flights : Returned.flights[j].type = type } }

\* C27 as stated: every one-stop itinerary of a response is a route of the
\* request through its hub, and every direct itinerary has its leg from
\* request.origin to request.destination.
C27_RoutesOfTheRequestAsStated ==
    response # <<>> =>
        /\ \A option \in ReturnedOf("one-stop") : RouteThroughHub(option)
        /\ \A option \in ReturnedOf("direct") :
               /\ option.legs[1].origin_airport = request.origin
               /\ option.legs[1].destination_airport = request.destination

\* C27: every one-stop itinerary of a response is a route of the request
\* through its hub: the first leg leaves request.origin for the layover's
\* airport, the second leaves that airport for request.destination, and the
\* airport is one of the curated hubs other than origin and destination.
\* Every direct itinerary has its leg from request.origin to
\* request.destination, or, when the destination requested is "ANY", to one
\* of the destinations the search went through.
C27_RoutesOfTheRequest ==
    response # <<>> =>
        /\ \A option \in ReturnedOf("one-stop") : RouteThroughHub(option)
        /\ \A option \in ReturnedOf("direct") :
               /\ Len(option.legs) = 1
               /\ option.legs[1].origin_airport = request.origin
               /\ IF AnyRequested
                  THEN option.legs[1].destination_airport \in FirstDestinations
                  ELSE option.legs[1].destination_airport = request.destination

\* a response with one-stop itineraries through two hubs
C27_Witness ==
    /\ pc = "done"
    /\ response # <<>>
    /\ \E a, b \in ReturnedOf("one-stop") :
           a.layovers[1].airport # b.layovers[1].airport

\* the places in the log of the queries made in `stage` of `hub`
QueriedIn(stage, hub) ==
    { i \in DOMAIN log : log[i].stage = stage /\ log[i].hub = hub }

\* the places in the fetch notes of the second-leg fetches of `hub`
SecondLegFetches(hub) ==
    { n \in DOMAIN fetches :
        fetches[n].stage = "second_leg" /\ fetches[n].hub = hub }

Matched(hub) == { k \in DOMAIN matches : matches[k].hub = hub }

\* C28: within a hub every query of the first leg is made before any query of
\* the second leg.  A hub whose first leg returned no flight has no
\* second-leg fetch and no second-leg query, is not matched and contributes
\* no itinerary; a hub whose second-leg fetches returned no flight on any
\* date is not matched either.  A hub is matched only with flights of both
\* legs.
C28_FirstLegBeforeSecond ==
    \A n \in DOMAIN fetches :
      LET f == fetches[n] IN
        f.stage = "first_leg" =>
            /\ \A i \in QueriedIn("first_leg", f.hub) :
                   \A j \in QueriedIn("second_leg", f.hub) : i < j
            /\ \A m \in SecondLegFetches(f.hub) : n < m
            /\ f.flights = <<>> =>
                   /\ SecondLegFetches(f.hub) = {}
                   /\ QueriedIn("second_leg", f.hub) = {}
                   /\ Matched(f.hub) = {}
                   /\ Through(f.hub) = {}
            /\ SecondLegKept(f.hub) = <<>> =>
                   /\ Matched(f.hub) = {}
                   /\ Through(f.hub) = {}
            /\ \A k \in Matched(f.hub) :
                   /\ matches[k].first = f.flights
                   /\ matches[k].first # <<>>
                   /\ matches[k].second # <<>>

\* a finished search with a hub whose first leg returned nothing, a hub whose
\* first leg returned flights and whose second leg was queried and returned
\* none, and a hub that was matched
C28_Witness ==
    /\ pc = "done"
    /\ \E n \in DOMAIN fetches :
           /\ fetches[n].stage = "first_leg"
           /\ fetches[n].flights = <<>>
           /\ QueriedIn("first_leg", fetches[n].hub) # {}
    /\ \E n \in DOMAIN fetches :
           /\ fetches[n].stage = "first_leg"
           /\ fetches[n].flights # <<>>
           /\ QueriedIn("second_leg", fetches[n].hub) # {}
           /\ SecondLegKept(fetches[n].hub) = <<>>
    /\ \E n \in DOMAIN fetches :
           /\ fetches[n].stage = "first_leg"
           /\ Matched(fetches[n].hub) # {}
           /\ Through(fetches[n].hub) # {}

\* C29: the lazily initialised client is a singleton under every interleaving
\* of the calls of get_ryanair_client: RyanairAPIClient is constructed at
\* most once, every call that returns hands out the same instance, and a call
\* whose construction failed answers 500 without an instance.
C29_TrueSingleton ==
    /\ instances <= 1
    /\ Cardinality(handed) <= 1
    /\ \A c \in Callers : calls[c].status = 200 => calls[c].got = ryanair_client
    /\ \A c \in Callers : calls[c].status = 500 => calls[c].got = <<>>

\* N, the departure flexibility of the request, and the dates of its window
DatesOfWindow == 2 * FlexibilityDays(request) + 1

\* H, the number of candidate hubs of the request
CandidateHubs ==
    Cardinality(Range(major_hubs) \ {request.origin, request.destination})

\* the one-day queries the search has issued, all and for one hub
QueriesIssued == Len(log)

QueriesVia(hub) ==
    Cardinality({ i \in DOMAIN log : log[i].stage \in LegStages /\ log[i].hub = hub })

DirectQueries == Cardinality({ i \in DOMAIN log : log[i].stage = "direct" })

\* the bounds on the queries of a search between two airports
QueriesBounded ==
    ~AnyRequested =>
        /\ CandidateHubs <= 13
        /\ QueriesIssued <= DatesOfWindow * (1 + 2 * CandidateHubs)
        /\ DirectQueries <= DatesOfWindow
        /\ \A hub \in Range(major_hubs) : QueriesVia(hub) <= 2 * DatesOfWindow
        /\ \A i \in DOMAIN log : log[i].attempts <= 3

\* with max_connections 0 the search has issued exactly 2N+1 queries
DirectOnlyAsStated ==
    (~AnyRequested /\ request.max_connections = 0 /\ pc = "done") =>
        QueriesIssued = DatesOfWindow

\* with max_connections 0 the search has issued exactly 2N+1 queries, or none
\* when its window starts before the first date there is
DirectOnly ==
    (~AnyRequested /\ request.max_connections = 0 /\ pc = "done") =>
        QueriesIssued = IF request.departure_date - FlexibilityDays(request) >= 1
                        THEN DatesOfWindow ELSE 0

\* a search that has not ended can take its next step: one of the guards of
\* Next holds
NeverStuck ==
    /\ pc \in {"start", "connection", "merge", "any", "done"}
    /\ pc = "connection" => hub_airports # <<>>

\* C30 as stated: every search terminates; a search between two airports
\* with flexibility N and H candidate hubs issues at most (2N+1)(1+2H) one-day
\* queries, 2N+1 of them at most for the direct leg and 2(2N+1) at most for a
\* hub, each of at most 3 HTTP attempts; with max_connections 0 it issues
\* exactly 2N+1.
C30_TerminatesWithinBoundsAsStated ==
    /\ <>(pc = "done")
    /\ [](NeverStuck /\ QueriesBounded /\ DirectOnlyAsStated)

\* C30: every search terminates; a search between two airports with
\* flexibility N and H candidate hubs issues at most (2N+1)(1+2H) one-day
\* queries, 2N+1 of them at most for the direct leg and 2(2N+1) at most for a
\* hub, each of at most 3 HTTP attempts; with max_connections 0 it issues
\* exactly 2N+1, or none when the window of dates starts before the first
\* date there is.
C30_TerminatesWithinBounds ==
    /\ <>(pc = "done")
    /\ [](NeverStuck /\ QueriesBounded /\ DirectOnly)

\* a finished search with flexibility that queried both legs of a hub on
\* every date and stayed below the bound
C30_Witness ==
    /\ pc = "done"
    /\ ~AnyRequested
    /\ request.max_connections = 1
    /\ FlexibilityDays(request) >= 1
    /\ \E hub \in Range(major_hubs) : QueriesVia(hub) = 2 * DatesOfWindow
    /\ DirectQueries = DatesOfWindow
    /\ QueriesIssued < DatesOfWindow * (1 + 2 * CandidateHubs)
    /\ QueriesIssued > DatesOfWindow * (1 + CandidateHubs)

====
